---- MODULE Spec2Model ----
(***************************************************************************)
(* Deck builder (build_pptx.py) and deck validator (validate_pptx.py) of   *)
(* the AZ-305 training deck.                                               *)
(*                                                                         *)
(* Text abstraction.  The validator only ever asks of a slide's text       *)
(* whether one of its fixed keywords is a substring of it, and whether one *)
(* of its text lines holds the table-row delimiter " | ".  A slide's text  *)
(* is therefore represented by kw, the set of validator keywords that are  *)
(* substrings of its text (keywords in lower case, as every keyword test   *)
(* but the weight test lower-cases the text, and the weight strings hold   *)
(* no letters), by pipe (a text paragraph of the slide holds " | ") and by *)
(* cols (the column count of the slide's table, 0 without a table).        *)
(* Plan lists, for each of the 97 slide blocks of build_pptx.py, what the  *)
(* block's literal title, body and table text contain; the footer text is  *)
(* added by add_footer.                                                    *)
(*                                                                         *)
(* The module also holds the objective sync script                         *)
(* (.github/scripts/sync_objectives.py) and the two diagram fetchers       *)
(* (scrape_azure_diagrams.py, download_diagrams.py).  Each script is a     *)
(* process of its own; pc holds the position of the one that runs.  A      *)
(* string of these scripts is a sequence of tokens: a word, a run of       *)
(* digits, or a single other character.                                    *)
(***************************************************************************)
EXTENDS Integers, Sequences, FiniteSets, TLC

VARIABLES
    pc,             \* position of the script that runs
    step,           \* build_pptx.py: index of the next slide block of the script
    slide_counter,  \* build_pptx.py:50 global slide_counter
    prs,            \* build_pptx.py:43 the in-memory presentation (sequence of slides)
    file,           \* the .pptx file on disk: state (none, ok, corrupt) and slides
    slides_info,    \* validate_pptx.py:228 extracted corpus
    report,         \* statuses printed by the report sections 1..8, in order
    all_checks,     \* validate_pptx.py:296 statuses collected for the grade
    passes,         \* validate_pptx.py:308
    warns,          \* validate_pptx.py:309
    fails,          \* validate_pptx.py:310
    total,          \* validate_pptx.py:311
    grade,          \* validate_pptx.py:317-328
    exit_code,      \* exit status of the script that runs: <<>> while it runs, then <<status>>
    EXAM_URL,       \* sync_objectives.py:92 the environment variable ("absent", "empty", "set")
    page,           \* the web page behind EXAM_URL: its HTTP status and its elements
    http_requests,  \* number of HTTP requests the script that runs has issued
    objectives,     \* sync_objectives.py:96 the parsed objectives
    markdown,       \* sync_objectives.py:97 the rendered document
    out_file,       \* az305-exam-metadata/az305-OD.md: state (untouched, open, written), content
    item_idx,       \* diagram fetchers: 1-based position of the loop over the fixed list
    imgs,           \* download_diagrams.py:79 images, the img tags of the page in process
    img,            \* download_diagrams.py:85 1-based position of the loop over images
    image_count,    \* download_diagrams.py:82
    total_images,   \* download_diagrams.py:109
    images_dir,     \* the files of the directory images/ (set of file names)
    events,         \* the requests, delays and error messages of a fetcher, in order
    imgs_seen       \* number of img tags the pages fetched so far held

vars == <<pc, step, slide_counter, prs, file, slides_info, report, all_checks,
          passes, warns, fails, total, grade, exit_code,
          EXAM_URL, page, http_requests, objectives, markdown, out_file,
          item_idx, imgs, img, image_count, total_images, images_dir, events, imgs_seen>>

builderVars == <<step, slide_counter, prs>>
validatorVars == <<slides_info, report, all_checks, passes, warns, fails, total,
                   grade, exit_code>>

syncVars == <<EXAM_URL, page, http_requests, objectives, markdown, out_file>>

\* The state of the scripts other than the deck builder and the deck validator
fetchVars == <<item_idx, imgs, img, image_count, total_images, images_dir, events, imgs_seen>>

otherVars == <<syncVars, fetchVars>>

NoGrade == "NoGrade"

\* sync_objectives.py has not run
SyncIdle ==
    /\ EXAM_URL = "absent"
    /\ page = [status |-> "none", skills |-> FALSE, elems |-> <<>>]
    /\ http_requests = 0
    /\ objectives = <<>>
    /\ markdown = <<>>
    /\ out_file = [state |-> "untouched", content |-> <<>>]

\* No diagram fetcher has run
FetchIdle ==
    /\ item_idx = 1
    /\ imgs = <<>>
    /\ img = 1
    /\ image_count = 0
    /\ total_images = 0
    /\ images_dir = {}
    /\ events = <<>>
    /\ imgs_seen = 0

OthersIdle == SyncIdle /\ FetchIdle

\* build_pptx.py:33-41 SEGMENTS, by the validator keywords that are
\* substrings of the footer label of a segment:
\* "Segment 1: Identity, Governance & Monitoring", "Segment 2: Data Storage
\* Solutions", "Segment 3: Business Continuity & HA", "Segment 4: Compute &
\* Application Architecture", "Segment 5: Networking & Migrations"; "Opening"
\* and "Closing" hold none, and SEGMENTS.get(id, "") is empty for any other id.
SegmentLabelKw(segment_id) ==
    CASE segment_id = 1 -> {"identity, governance"}
      [] segment_id = 2 -> {"data storage"}
      [] segment_id = 3 -> {"business continuity"}
      [] segment_id = 4 -> {"compute"}
      [] segment_id = 5 -> {"networking", "migration"}
      [] OTHER -> {}

\* build_pptx.py:323-1533: the script's 97 slide blocks in order.  kind is the
\* call that creates the slide ("title" and "thanks" are the two hand-built
\* slides), seg the segment id passed to the call.
Plan == <<
    \* slide 1: build_pptx.py line 326
    [kind |-> "title", seg |-> 0, kw |-> {"az-305"}, cols |-> 0, pipe |-> TRUE],
    \* slide 2: build_pptx.py line 356
    [kind |-> "content", seg |-> 0, kw |-> {"az-305", "about"}, cols |-> 0, pipe |-> FALSE],
    \* slide 3: build_pptx.py line 369
    [kind |-> "content", seg |-> 0, kw |-> {"identity, governance", "data storage", "business continuity", "compute", "networking", "25-30%", "20-25%", "15-20%", "~17%", "~18%", "migration", "course objectives"}, cols |-> 0, pipe |-> FALSE],
    \* slide 4: build_pptx.py line 380
    [kind |-> "content", seg |-> 0, kw |-> {"az-305", "exam overview"}, cols |-> 2, pipe |-> FALSE],
    \* slide 5: build_pptx.py line 395
    [kind |-> "content", seg |-> 0, kw |-> {"identity, governance", "data storage", "business continuity", "compute", "networking", "25-30%", "20-25%", "15-20%", "~17%", "~18%", "migration", "agenda", "aks"}, cols |-> 4, pipe |-> FALSE],
    \* slide 6: build_pptx.py line 412
    [kind |-> "content", seg |-> 0, kw |-> {"networking", "cross-cutting", "well-architected"}, cols |-> 0, pipe |-> FALSE],
    \* slide 7: build_pptx.py line 423
    [kind |-> "content", seg |-> 0, kw |-> {"well-architected"}, cols |-> 3, pipe |-> FALSE],
    \* slide 8: build_pptx.py line 436
    [kind |-> "content", seg |-> 0, kw |-> {"demo", "exam tip", "review question", "how to use"}, cols |-> 0, pipe |-> FALSE],
    \* slide 9: build_pptx.py line 450
    [kind |-> "divider", seg |-> 1, kw |-> {"identity, governance", "25-30%"}, cols |-> 0, pipe |-> FALSE],
    \* slide 10: build_pptx.py line 453
    [kind |-> "content", seg |-> 1, kw |-> {"learning objective", "entra id", "rbac", "management group", "key vault", "azure monitor", "sentinel"}, cols |-> 0, pipe |-> FALSE],
    \* slide 11: build_pptx.py line 462
    [kind |-> "content", seg |-> 1, kw |-> {"entra id"}, cols |-> 0, pipe |-> FALSE],
    \* slide 12: build_pptx.py line 472
    [kind |-> "content", seg |-> 1, kw |-> {"authentication decision", "entra id", "conditional access"}, cols |-> 3, pipe |-> FALSE],
    \* slide 13: build_pptx.py line 484
    [kind |-> "content", seg |-> 1, kw |-> {"entra id"}, cols |-> 5, pipe |-> FALSE],
    \* slide 14: build_pptx.py line 498
    [kind |-> "content", seg |-> 1, kw |-> {"conditional access", "rpo"}, cols |-> 0, pipe |-> FALSE],
    \* slide 15: build_pptx.py line 510
    [kind |-> "content", seg |-> 1, kw |-> {"key vault"}, cols |-> 3, pipe |-> FALSE],
    \* slide 16: build_pptx.py line 524
    [kind |-> "content", seg |-> 1, kw |-> {"rbac", "management group", "pim"}, cols |-> 0, pipe |-> FALSE],
    \* slide 17: build_pptx.py line 535
    [kind |-> "content", seg |-> 1, kw |-> {"entra id", "pim"}, cols |-> 0, pipe |-> FALSE],
    \* slide 18: build_pptx.py line 546
    [kind |-> "content", seg |-> 1, kw |-> {"firewall", "management group", "rpo", "expressroute"}, cols |-> 0, pipe |-> FALSE],
    \* slide 19: build_pptx.py line 563
    [kind |-> "content", seg |-> 1, kw |-> {"azure policy"}, cols |-> 3, pipe |-> FALSE],
    \* slide 20: build_pptx.py line 581
    [kind |-> "content", seg |-> 1, kw |-> {"governance decision", "management group", "azure policy"}, cols |-> 3, pipe |-> FALSE],
    \* slide 21: build_pptx.py line 595
    [kind |-> "content", seg |-> 1, kw |-> {"azure monitor"}, cols |-> 0, pipe |-> FALSE],
    \* slide 22: build_pptx.py line 606
    [kind |-> "content", seg |-> 1, kw |-> {"aks"}, cols |-> 0, pipe |-> FALSE],
    \* slide 23: build_pptx.py line 618
    [kind |-> "content", seg |-> 1, kw |-> {"firewall", "entra id", "sentinel"}, cols |-> 0, pipe |-> FALSE],
    \* slide 24: build_pptx.py line 629
    [kind |-> "content", seg |-> 1, kw |-> {"firewall", "entra id", "rbac", "key vault", "event grid", "private endpoint"}, cols |-> 0, pipe |-> FALSE],
    \* slide 25: build_pptx.py line 641
    [kind |-> "content", seg |-> 1, kw |-> {"demo", "conditional access", "azure policy", "key vault", "rpo"}, cols |-> 0, pipe |-> FALSE],
    \* slide 26: build_pptx.py line 650
    [kind |-> "exam_tip", seg |-> 1, kw |-> {"exam tip", "about", "pim", "sentinel"}, cols |-> 0, pipe |-> FALSE],
    \* slide 27: build_pptx.py line 661
    [kind |-> "content", seg |-> 1, kw |-> {"review question", "rbac", "azure policy", "key vault", "pim"}, cols |-> 0, pipe |-> FALSE],
    \* slide 28: build_pptx.py line 675
    [kind |-> "divider", seg |-> 2, kw |-> {"data storage", "20-25%"}, cols |-> 0, pipe |-> FALSE],
    \* slide 29: build_pptx.py line 678
    [kind |-> "content", seg |-> 2, kw |-> {"learning objective", "sql database", "cosmos db", "blob storage", "synapse", "event hubs"}, cols |-> 0, pipe |-> FALSE],
    \* slide 30: build_pptx.py line 687
    [kind |-> "content", seg |-> 2, kw |-> {"storage decision", "sql database", "sql managed instance", "cosmos db", "blob storage", "backup"}, cols |-> 3, pipe |-> FALSE],
    \* slide 31: build_pptx.py line 703
    [kind |-> "content", seg |-> 2, kw |-> {"redundancy", "availability zone"}, cols |-> 5, pipe |-> FALSE],
    \* slide 32: build_pptx.py line 716
    [kind |-> "content", seg |-> 2, kw |-> {"blob storage"}, cols |-> 5, pipe |-> FALSE],
    \* slide 33: build_pptx.py line 732
    [kind |-> "content", seg |-> 2, kw |-> {"exam tip"}, cols |-> 0, pipe |-> FALSE],
    \* slide 34: build_pptx.py line 744
    [kind |-> "content", seg |-> 2, kw |-> {"migration", "sql database", "sql managed instance"}, cols |-> 4, pipe |-> FALSE],
    \* slide 35: build_pptx.py line 759
    [kind |-> "content", seg |-> 2, kw |-> {"compute", "backup"}, cols |-> 0, pipe |-> FALSE],
    \* slide 36: build_pptx.py line 770
    [kind |-> "content", seg |-> 2, kw |-> {"cosmos db", "partition key"}, cols |-> 0, pipe |-> FALSE],
    \* slide 37: build_pptx.py line 781
    [kind |-> "content", seg |-> 2, kw |-> {"cosmos db"}, cols |-> 5, pipe |-> FALSE],
    \* slide 38: build_pptx.py line 796
    [kind |-> "content", seg |-> 2, kw |-> {"data factory", "synapse"}, cols |-> 0, pipe |-> FALSE],
    \* slide 39: build_pptx.py line 807
    [kind |-> "content", seg |-> 2, kw |-> {"data factory", "synapse", "event hubs"}, cols |-> 3, pipe |-> FALSE],
    \* slide 40: build_pptx.py line 819
    [kind |-> "content", seg |-> 2, kw |-> {"key vault", "sql database"}, cols |-> 0, pipe |-> FALSE],
    \* slide 41: build_pptx.py line 830
    [kind |-> "content", seg |-> 2, kw |-> {"networking", "key vault", "cosmos db", "service bus", "event hubs", "private endpoint"}, cols |-> 0, pipe |-> FALSE],
    \* slide 42: build_pptx.py line 842
    [kind |-> "content", seg |-> 2, kw |-> {"synapse"}, cols |-> 0, pipe |-> FALSE],
    \* slide 43: build_pptx.py line 853
    [kind |-> "content", seg |-> 2, kw |-> {"demo", "sql database", "cosmos db", "blob storage", "data factory", "partition key", "private endpoint"}, cols |-> 0, pipe |-> FALSE],
    \* slide 44: build_pptx.py line 862
    [kind |-> "exam_tip", seg |-> 2, kw |-> {"exam tip", "migration", "sql managed instance", "cosmos db", "partition key", "private endpoint"}, cols |-> 0, pipe |-> FALSE],
    \* slide 45: build_pptx.py line 873
    [kind |-> "content", seg |-> 2, kw |-> {"review question", "sql database", "sql managed instance", "cosmos db", "blob storage", "partition key"}, cols |-> 0, pipe |-> FALSE],
    \* slide 46: build_pptx.py line 886
    [kind |-> "divider", seg |-> 3, kw |-> {"business continuity", "15-20%"}, cols |-> 0, pipe |-> FALSE],
    \* slide 47: build_pptx.py line 889
    [kind |-> "content", seg |-> 3, kw |-> {"learning objective", "rto", "load balancing", "rpo", "availability zone", "site recovery", "backup", "sla"}, cols |-> 0, pipe |-> FALSE],
    \* slide 48: build_pptx.py line 898
    [kind |-> "content", seg |-> 3, kw |-> {"rto", "rpo"}, cols |-> 0, pipe |-> FALSE],
    \* slide 49: build_pptx.py line 909
    [kind |-> "content", seg |-> 3, kw |-> {"rto", "rpo", "backup"}, cols |-> 4, pipe |-> FALSE],
    \* slide 50: build_pptx.py line 920
    [kind |-> "content", seg |-> 3, kw |-> {"availability zone", "availability set", "sla"}, cols |-> 3, pipe |-> FALSE],
    \* slide 51: build_pptx.py line 934
    [kind |-> "content", seg |-> 3, kw |-> {"redundancy", "availability zone", "availability set", "sla"}, cols |-> 0, pipe |-> FALSE],
    \* slide 52: build_pptx.py line 945
    [kind |-> "content", seg |-> 3, kw |-> {"redundancy", "backup", "aks"}, cols |-> 0, pipe |-> FALSE],
    \* slide 53: build_pptx.py line 957
    [kind |-> "content", seg |-> 3, kw |-> {"rpo", "site recovery", "backup"}, cols |-> 0, pipe |-> FALSE],
    \* slide 54: build_pptx.py line 969
    [kind |-> "content", seg |-> 3, kw |-> {"rpo", "failover group"}, cols |-> 5, pipe |-> FALSE],
    \* slide 55: build_pptx.py line 981
    [kind |-> "content", seg |-> 3, kw |-> {"rto", "rpo", "front door"}, cols |-> 6, pipe |-> FALSE],
    \* slide 56: build_pptx.py line 995
    [kind |-> "content", seg |-> 3, kw |-> {"cosmos db", "availability zone", "failover group", "sla", "aks"}, cols |-> 4, pipe |-> FALSE],
    \* slide 57: build_pptx.py line 1009
    [kind |-> "content", seg |-> 3, kw |-> {"rto", "rpo", "failover group"}, cols |-> 0, pipe |-> FALSE],
    \* slide 58: build_pptx.py line 1020
    [kind |-> "content", seg |-> 3, kw |-> {"demo", "availability zone", "backup", "failover group"}, cols |-> 0, pipe |-> FALSE],
    \* slide 59: build_pptx.py line 1029
    [kind |-> "exam_tip", seg |-> 3, kw |-> {"exam tip", "about", "availability zone", "backup", "failover group", "sla", "front door"}, cols |-> 0, pipe |-> FALSE],
    \* slide 60: build_pptx.py line 1040
    [kind |-> "content", seg |-> 3, kw |-> {"review question", "rto", "sql database", "rpo", "site recovery", "failover group", "sla"}, cols |-> 0, pipe |-> FALSE],
    \* slide 61: build_pptx.py line 1053
    [kind |-> "divider", seg |-> 4, kw |-> {"compute", "~17%"}, cols |-> 0, pipe |-> FALSE],
    \* slide 62: build_pptx.py line 1056
    [kind |-> "content", seg |-> 4, kw |-> {"compute", "learning objective", "messaging", "container apps", "aks", "azure functions", "api management"}, cols |-> 0, pipe |-> FALSE],
    \* slide 63: build_pptx.py line 1065
    [kind |-> "content", seg |-> 4, kw |-> {"compute", "compute decision", "container apps", "aks", "azure functions"}, cols |-> 3, pipe |-> FALSE],
    \* slide 64: build_pptx.py line 1079
    [kind |-> "content", seg |-> 4, kw |-> {"compute", "sla"}, cols |-> 0, pipe |-> FALSE],
    \* slide 65: build_pptx.py line 1090
    [kind |-> "content", seg |-> 4, kw |-> {"private endpoint"}, cols |-> 0, pipe |-> FALSE],
    \* slide 66: build_pptx.py line 1101
    [kind |-> "content", seg |-> 4, kw |-> {"networking", "container apps", "aks"}, cols |-> 4, pipe |-> FALSE],
    \* slide 67: build_pptx.py line 1116
    [kind |-> "content", seg |-> 4, kw |-> {"networking", "aks"}, cols |-> 0, pipe |-> FALSE],
    \* slide 68: build_pptx.py line 1127
    [kind |-> "content", seg |-> 4, kw |-> {"cosmos db", "container apps", "service bus", "event hubs"}, cols |-> 0, pipe |-> FALSE],
    \* slide 69: build_pptx.py line 1139
    [kind |-> "content", seg |-> 4, kw |-> {"cosmos db", "azure functions", "service bus", "event grid"}, cols |-> 6, pipe |-> FALSE],
    \* slide 70: build_pptx.py line 1155
    [kind |-> "content", seg |-> 4, kw |-> {"messaging", "service bus", "event grid", "event hubs"}, cols |-> 4, pipe |-> FALSE],
    \* slide 71: build_pptx.py line 1171
    [kind |-> "content", seg |-> 4, kw |-> {"cosmos db", "container apps", "aks", "service bus", "event grid", "event hubs"}, cols |-> 0, pipe |-> FALSE],
    \* slide 72: build_pptx.py line 1182
    [kind |-> "content", seg |-> 4, kw |-> {"pim", "api management"}, cols |-> 6, pipe |-> FALSE],
    \* slide 73: build_pptx.py line 1198
    [kind |-> "content", seg |-> 4, kw |-> {"sla"}, cols |-> 4, pipe |-> FALSE],
    \* slide 74: build_pptx.py line 1214
    [kind |-> "content", seg |-> 4, kw |-> {"demo", "pim", "container apps", "service bus"}, cols |-> 0, pipe |-> FALSE],
    \* slide 75: build_pptx.py line 1223
    [kind |-> "exam_tip", seg |-> 4, kw |-> {"networking", "exam tip", "pim", "container apps", "aks", "service bus", "event grid", "event hubs"}, cols |-> 0, pipe |-> FALSE],
    \* slide 76: build_pptx.py line 1234
    [kind |-> "content", seg |-> 4, kw |-> {"review question", "messaging", "container apps", "service bus", "api management"}, cols |-> 0, pipe |-> FALSE],
    \* slide 77: build_pptx.py line 1247
    [kind |-> "divider", seg |-> 5, kw |-> {"networking", "~18%", "migration"}, cols |-> 0, pipe |-> FALSE],
    \* slide 78: build_pptx.py line 1250
    [kind |-> "content", seg |-> 5, kw |-> {"learning objective", "migration", "firewall", "hub-spoke", "expressroute", "vpn gateway", "nsg", "azure firewall", "azure migrate", "virtual wan"}, cols |-> 0, pipe |-> FALSE],
    \* slide 79: build_pptx.py line 1259
    [kind |-> "content", seg |-> 5, kw |-> {"firewall", "aks", "nsg", "private endpoint"}, cols |-> 0, pipe |-> FALSE],
    \* slide 80: build_pptx.py line 1270
    [kind |-> "content", seg |-> 5, kw |-> {"firewall", "hub-spoke", "expressroute", "vpn gateway", "azure firewall", "virtual wan"}, cols |-> 0, pipe |-> FALSE],
    \* slide 81: build_pptx.py line 1282
    [kind |-> "content", seg |-> 5, kw |-> {"firewall", "hub-spoke", "expressroute", "azure firewall", "virtual wan"}, cols |-> 0, pipe |-> FALSE],
    \* slide 82: build_pptx.py line 1293
    [kind |-> "content", seg |-> 5, kw |-> {"redundancy", "backup", "expressroute", "vpn gateway"}, cols |-> 3, pipe |-> FALSE],
    \* slide 83: build_pptx.py line 1308
    [kind |-> "content", seg |-> 5, kw |-> {"expressroute"}, cols |-> 0, pipe |-> FALSE],
    \* slide 84: build_pptx.py line 1319
    [kind |-> "content", seg |-> 5, kw |-> {"firewall", "rbac", "nsg", "azure firewall", "private endpoint", "front door"}, cols |-> 0, pipe |-> FALSE],
    \* slide 85: build_pptx.py line 1330
    [kind |-> "content", seg |-> 5, kw |-> {"firewall", "nsg", "azure firewall"}, cols |-> 4, pipe |-> FALSE],
    \* slide 86: build_pptx.py line 1344
    [kind |-> "content", seg |-> 5, kw |-> {"private endpoint"}, cols |-> 0, pipe |-> FALSE],
    \* slide 87: build_pptx.py line 1355
    [kind |-> "content", seg |-> 5, kw |-> {"load balancing", "front door"}, cols |-> 4, pipe |-> FALSE],
    \* slide 88: build_pptx.py line 1370
    [kind |-> "content", seg |-> 5, kw |-> {"migration", "container apps", "azure migrate"}, cols |-> 4, pipe |-> FALSE],
    \* slide 89: build_pptx.py line 1384
    [kind |-> "content", seg |-> 5, kw |-> {"migration", "rpo", "azure migrate"}, cols |-> 3, pipe |-> FALSE],
    \* slide 90: build_pptx.py line 1397
    [kind |-> "content", seg |-> 5, kw |-> {"demo", "migration", "firewall", "hub-spoke", "nsg", "azure firewall", "private endpoint", "azure migrate"}, cols |-> 0, pipe |-> FALSE],
    \* slide 91: build_pptx.py line 1406
    [kind |-> "exam_tip", seg |-> 5, kw |-> {"networking", "exam tip", "migration", "firewall", "sql managed instance", "hub-spoke", "expressroute", "azure firewall", "private endpoint", "front door", "virtual wan"}, cols |-> 0, pipe |-> FALSE],
    \* slide 92: build_pptx.py line 1417
    [kind |-> "content", seg |-> 5, kw |-> {"review question", "migration", "firewall", "sql database", "sql managed instance", "private endpoint", "azure migrate", "virtual wan"}, cols |-> 0, pipe |-> FALSE],
    \* slide 93: build_pptx.py line 1431
    [kind |-> "content", seg |-> 6, kw |-> {"data storage", "compute", "migration", "cross-cutting", "well-architected", "recap", "pim", "cosmos db", "backup", "failover group", "container apps", "service bus", "hub-spoke", "expressroute", "private endpoint", "azure migrate"}, cols |-> 3, pipe |-> TRUE],
    \* slide 94: build_pptx.py line 1445
    [kind |-> "content", seg |-> 6, kw |-> {"exam day"}, cols |-> 0, pipe |-> FALSE],
    \* slide 95: build_pptx.py line 1457
    [kind |-> "content", seg |-> 6, kw |-> {"demo", "az-305", "well-architected", "study resources"}, cols |-> 0, pipe |-> FALSE],
    \* slide 96: build_pptx.py line 1470
    [kind |-> "content", seg |-> 6, kw |-> {"networking", "az-305", "next steps", "failover group", "container apps", "hub-spoke"}, cols |-> 0, pipe |-> FALSE],
    \* slide 97: build_pptx.py line 1503
    [kind |-> "thanks", seg |-> 6, kw |-> {"thank you"}, cols |-> 0, pipe |-> TRUE]
>>

NumBlocks == Len(Plan)

(***************************************************************************)
(* Deck builder: build_pptx.py                                             *)
(***************************************************************************)

\* prs.slides.add_slide(BLANK_LAYOUT): a slide without text, footer or table
BlankSlide(kind) ==
    [kind |-> kind, seg |-> -1, footer |-> 0, kw |-> {}, cols |-> 0, pipe |-> FALSE]

\* add_footer that labels every slide with the segment after the one passed
add_footer_NextSegment(slide, segment_id, slide_num) ==
    [slide EXCEPT !.seg = segment_id + 1,
                  !.footer = slide_num,
                  !.kw = @ \cup SegmentLabelKw(segment_id + 1)]

\* build_pptx.py:93-100 add_footer: the segment label bottom-left and
\* str(slide_num) bottom-right
add_footer(slide, segment_id, slide_num) ==
    [slide EXCEPT !.seg = segment_id,
                  !.footer = slide_num,
                  !.kw = @ \cup SegmentLabelKw(segment_id)]

\* The literal title, body and table text a slide block places on its slide
\* (add_header_bar, _add_textbox, add_bullet_list, add_table, ...)
AddContent(slide, p) ==
    [slide EXCEPT !.kw = @ \cup p.kw, !.cols = p.cols, !.pipe = p.pipe]

\* build_pptx.py:326-352 (slide 1) and 1503-1533 (slide 97): the hand-built
\* slides: slide_counter += 1, add_slide, text boxes, add_footer(s, seg, slide_counter)
hand_built_slide(p) ==
    /\ slide_counter' = slide_counter + 1
    /\ prs' = Append(prs, add_footer(AddContent(BlankSlide(p.kind), p),
                                     p.seg, slide_counter'))

\* build_pptx.py:119-126 new_content_slide, followed by the block's body
new_content_slide(p) ==
    /\ slide_counter' = slide_counter + 1
    /\ prs' = Append(prs, AddContent(add_footer(BlankSlide(p.kind), p.seg,
                                                slide_counter'), p))

\* new_divider_slide without its "slide_counter += 1"
new_divider_slide_NoCount(p) ==
    /\ slide_counter' = slide_counter
    /\ prs' = Append(prs, add_footer(AddContent(BlankSlide(p.kind), p),
                                     p.seg, slide_counter'))

\* new_divider_slide that leaves the gold badge, the shape holding the
\* weight string, without its text
new_divider_slide_NoBadge(p) ==
    /\ slide_counter' = slide_counter + 1
    /\ prs' = Append(prs, add_footer(
                  AddContent(BlankSlide(p.kind),
                             [p EXCEPT !.kw = @ \ {"25-30%", "20-25%", "15-20%", "~17%", "~18%"}]),
                  p.seg, slide_counter'))

\* build_pptx.py:129-162 new_divider_slide: the title and the badge text are
\* the block's content
new_divider_slide(p) ==
    /\ slide_counter' = slide_counter + 1
    /\ prs' = Append(prs, add_footer(AddContent(BlankSlide(p.kind), p),
                                     p.seg, slide_counter'))

\* build_pptx.py:185-186: the fixed subtitle "EXAM TIPS" of an exam-tip slide
ExamTipSubtitle(slide) == [slide EXCEPT !.kw = @ \cup {"exam tip"}]

\* build_pptx.py:165-189 new_exam_tip_slide, followed by the block's body
new_exam_tip_slide(p) ==
    /\ slide_counter' = slide_counter + 1
    /\ prs' = Append(prs, AddContent(add_footer(ExamTipSubtitle(BlankSlide(p.kind)),
                                                p.seg, slide_counter'), p))

BuildBlock(kinds) ==
    /\ pc = "build"
    /\ step <= NumBlocks
    /\ Plan[step].kind \in kinds
    /\ step' = step + 1
    /\ UNCHANGED <<pc, file>>
    /\ UNCHANGED validatorVars
    /\ UNCHANGED otherVars

HandBuiltSlide == BuildBlock({"title", "thanks"}) /\ hand_built_slide(Plan[step])

NewContentSlide == BuildBlock({"content"}) /\ new_content_slide(Plan[step])

NewDividerSlide == BuildBlock({"divider"}) /\ new_divider_slide(Plan[step])

NewExamTipSlide == BuildBlock({"exam_tip"}) /\ new_exam_tip_slide(Plan[step])

\* A builder that saves the presentation after every slide block
Save_AfterEachBlock ==
    /\ pc = "build"
    /\ file' = [state |-> "ok", slides |-> prs]
    /\ pc' = IF step = NumBlocks + 1 THEN "saved" ELSE "build"
    /\ UNCHANGED builderVars
    /\ UNCHANGED validatorVars
    /\ UNCHANGED otherVars

\* build_pptx.py:1539-1543 prs.save(output_path): the single file write
Save ==
    /\ pc = "build"
    /\ step = NumBlocks + 1
    /\ file' = [state |-> "ok", slides |-> prs]
    /\ pc' = "saved"
    /\ UNCHANGED builderVars
    /\ UNCHANGED validatorVars
    /\ UNCHANGED otherVars

\* build_pptx.py:227-233 add_table(slide, rows_data, col_widths) with an empty
\* rows_data: len(rows_data[0]) raises IndexError before any shape is added.
\* The block's slide was created by the call before it (slide_counter += 1,
\* add_slide, add_footer) and stays without its table.  The script holds no
\* try statement, so the exception ends it with status 1 before line 1541.
AddTableRaises ==
    /\ pc = "build"
    /\ step <= NumBlocks
    /\ Plan[step].cols > 0
    /\ slide_counter' = slide_counter + 1
    /\ prs' = Append(prs, add_footer(BlankSlide(Plan[step].kind), Plan[step].seg,
                                     slide_counter'))
    /\ pc' = "exit"
    /\ exit_code' = <<1>>
    /\ UNCHANGED <<step, file>>
    /\ UNCHANGED <<slides_info, report, all_checks, passes, warns, fails, total, grade>>
    /\ UNCHANGED otherVars

(***************************************************************************)
(* Deck validator: validate_pptx.py                                        *)
(***************************************************************************)

PASS == "PASS"
WARN == "WARN"
FAIL == "FAIL"

\* seq.count(x)
Count(seq, x) == Cardinality({i \in DOMAIN seq : seq[i] = x})

\* str.lower() on the strings the checks lower-case: the divider topics are
\* the only keywords written with capitals
Lower(str) ==
    CASE str = "Identity, Governance" -> "identity, governance"
      [] str = "Data Storage" -> "data storage"
      [] str = "Business Continuity" -> "business continuity"
      [] str = "Compute" -> "compute"
      [] str = "Networking" -> "networking"
      [] OTHER -> str

\* validate_pptx.py:12-36 extract_slide_info: num is the 1-based position;
\* the text lines are the stripped paragraphs and, for a table, its rows
\* joined with " | ", so a line holds " | " when a paragraph does or when
\* the slide has a table of two or more columns
extract_slide_info(slides) ==
    [i \in 1..Len(slides) |->
        [num |-> i,
         kw |-> slides[i].kw,
         pipe |-> slides[i].pipe \/ slides[i].cols >= 2]]

\* kw in s["full_text"].lower()  (kw already lower case)
InText(kw, s) == kw \in s.kw

\* validate_pptx.py:42 expected slide count
ExpectedSlides == 97

\* validate_pptx.py:39-43
check_slide_count(si) ==
    [status |-> IF Len(si) = ExpectedSlides THEN PASS ELSE FAIL,
     count |-> Len(si)]

\* validate_pptx.py:48-54
expected_dividers == <<
    [topic |-> "Identity, Governance", weight |-> "25-30%"],
    [topic |-> "Data Storage", weight |-> "20-25%"],
    [topic |-> "Business Continuity", weight |-> "15-20%"],
    [topic |-> "Compute", weight |-> "~17%"],
    [topic |-> "Networking", weight |-> "~18%"] >>

\* validate_pptx.py:60-61: the test of one slide against one expected divider
MatchesDivider(s, d) == InText(Lower(d.topic), s) /\ InText(d.weight, s)

\* The inner loop without its break: the last matching slide is the one kept
FirstMatch_Last(si, d) ==
    IF \E i \in DOMAIN si : MatchesDivider(si[i], d)
    THEN CHOOSE i \in DOMAIN si :
            /\ MatchesDivider(si[i], d)
            /\ \A j \in (i + 1)..Len(si) : ~ MatchesDivider(si[j], d)
    ELSE 0

\* validate_pptx.py:58-64: the position of the first slide that matches the
\* divider, where the inner loop breaks; 0 when the loop ends without a match
FirstMatch(si, d) ==
    IF \E i \in DOMAIN si : MatchesDivider(si[i], d)
    THEN CHOOSE i \in DOMAIN si :
            /\ MatchesDivider(si[i], d)
            /\ \A j \in 1..(i - 1) : ~ MatchesDivider(si[j], d)
    ELSE 0

\* validate_pptx.py:46-72: found lists (topic, num) of the first matching
\* slide of each expected divider, issues the dividers without a match
check_segment_dividers(si) ==
    LET first == [k \in DOMAIN expected_dividers |-> FirstMatch(si, expected_dividers[k])]
        hits == SelectSeq([k \in DOMAIN expected_dividers |->
                              [topic |-> expected_dividers[k].topic, at |-> first[k]]],
                          LAMBDA h : h.at # 0)
        found == [j \in DOMAIN hits |-> [topic |-> hits[j].topic, num |-> si[hits[j].at].num]]
        issues == SelectSeq(expected_dividers, LAMBDA d : FirstMatch(si, d) = 0)
    IN  [status |-> IF Len(found) = 5 THEN PASS ELSE FAIL,
         found |-> found,
         issues |-> [j \in DOMAIN issues |-> issues[j].topic]]

\* validate_pptx.py:77-83
segments == <<
    [name |-> "Identity/Governance", start |-> 9, end |-> 27],
    [name |-> "Data Storage", start |-> 28, end |-> 45],
    [name |-> "BCDR", start |-> 46, end |-> 60],
    [name |-> "Compute/App", start |-> 61, end |-> 76],
    [name |-> "Networking/Migration", start |-> 77, end |-> 92] >>

\* validate_pptx.py:90-95: the four markers of a segment, in dict order
segment_checks == <<
    [key |-> "learning_objectives", marker |-> "learning objective"],
    [key |-> "demo_callout", marker |-> "demo"],
    [key |-> "exam_tips", marker |-> "exam tip"],
    [key |-> "review_questions", marker |-> "review question"] >>

\* segment_result that looks for the markers on every slide of the deck
segment_result_AnySlide(si, seg_id) ==
    LET miss == SelectSeq(segment_checks,
                          LAMBDA c : ~ \E i \in 1..Len(si) : InText(c.marker, si[i]))
    IN  [status |-> IF miss = <<>> THEN PASS ELSE FAIL,
         seg_id |-> seg_id,
         missing |-> [j \in 1..Len(miss) |-> miss[j].key]]

\* segment_result with the range test "start <= num < end"
segment_result_ExclusiveEnd(si, seg_id) ==
    LET info == segments[seg_id]
        seg_slides == {i \in 1..Len(si) : info.start <= si[i].num /\ si[i].num < info.end}
        miss == SelectSeq(segment_checks,
                          LAMBDA c : ~ \E i \in seg_slides : InText(c.marker, si[i]))
    IN  [status |-> IF miss = <<>> THEN PASS ELSE FAIL,
         seg_id |-> seg_id,
         missing |-> [j \in 1..Len(miss) |-> miss[j].key]]

\* validate_pptx.py:85-103: the result of one segment
segment_result(si, seg_id) ==
    LET info == segments[seg_id]
        seg_slides == {i \in 1..Len(si) : info.start <= si[i].num /\ si[i].num <= info.end}
        miss == SelectSeq(segment_checks,
                          LAMBDA c : ~ \E i \in seg_slides : InText(c.marker, si[i]))
    IN  [status |-> IF miss = <<>> THEN PASS ELSE FAIL,
         seg_id |-> seg_id,
         missing |-> [j \in 1..Len(miss) |-> miss[j].key]]

\* validate_pptx.py:75-104
check_segment_structure(si) ==
    [seg_id \in 1..Len(segments) |-> segment_result(si, seg_id)]

\* validate_pptx.py:109-120
key_matrices == <<
    "authentication decision", "storage decision", "redundancy", "rto",
    "compute decision", "messaging", "load balancing", "migration",
    "firewall", "governance decision" >>

\* any(kw.lower() in s["full_text"].lower() for s in slides)
InSomeSlide(kw, slides) == \E i \in DOMAIN slides : InText(Lower(kw), slides[i])

\* The thresholds with "> 8" for ">= 8"
MatrixStatus_Strict(n) == IF n > 8 THEN PASS ELSE IF n >= 6 THEN WARN ELSE FAIL

\* validate_pptx.py:133 the status thresholds of check_decision_matrices
MatrixStatus(n) == IF n >= 8 THEN PASS ELSE IF n >= 6 THEN WARN ELSE FAIL

\* validate_pptx.py:107-137
check_decision_matrices(si) ==
    LET found == SelectSeq(key_matrices, LAMBDA m : InSomeSlide(m, si))
        missing == SelectSeq(key_matrices, LAMBDA m : ~ InSomeSlide(m, si))
    IN  [status |-> MatrixStatus(Len(found)),
         found |-> found,
         missing |-> missing]

\* validate_pptx.py:142-144
opening_keywords == <<"az-305", "about", "course objectives", "exam overview",
                      "agenda", "cross-cutting", "well-architected", "how to use">>

closing_keywords == <<"recap", "exam day", "study resources", "next steps", "thank you">>

\* The opening keywords looked for on every slide of the deck
FirstSlides_All(si, n) == si

\* slides_info[:8]
FirstSlides(si, n) == SubSeq(si, 1, IF Len(si) < n THEN Len(si) ELSE n)

\* slides_info[-5:]
LastSlides(si, n) == SubSeq(si, IF Len(si) < n THEN 1 ELSE Len(si) - n + 1, Len(si))

\* sum(1 for kw in keywords if any(kw in s for s in slides))
KeywordsFound(keywords, slides) ==
    Cardinality({j \in DOMAIN keywords : InSomeSlide(keywords[j], slides)})

\* validate_pptx.py:140-157: <<opening result, closing result>>
check_opening_closing(si) ==
    LET opening_found == KeywordsFound(opening_keywords, FirstSlides(si, 8))
        closing_found == KeywordsFound(closing_keywords, LastSlides(si, 5))
    IN  << [status |-> IF opening_found >= 7 THEN PASS ELSE WARN, found |-> opening_found],
           [status |-> IF closing_found >= 4 THEN PASS ELSE WARN, found |-> closing_found] >>

\* validate_pptx.py:163-179
course_flow_topics == <<
    "entra id", "conditional access", "rbac", "management group", "azure policy",
    "key vault", "azure monitor", "pim", "sentinel",
    "sql database", "sql managed instance", "cosmos db", "blob storage",
    "data lake", "data factory", "synapse", "partition key",
    "rto", "rpo", "availability zone", "availability set", "site recovery",
    "backup", "failover group", "sla",
    "container apps", "aks", "azure functions", "service bus",
    "event grid", "event hubs", "api management", "redis cache",
    "hub-spoke", "expressroute", "vpn gateway", "nsg", "azure firewall",
    "private endpoint", "front door", "azure migrate", "virtual wan" >>

\* validate_pptx.py:160-188.  all_text joins the slides' texts with " ", so a
\* topic is in all_text when it is in one slide's text; a topic written
\* across the end of one slide and the start of the next would match too,
\* which no deck of this model does (no slide of Plan ends with the first
\* words of a topic while another starts with its last words).
check_course_flow_alignment(si) ==
    LET found == SelectSeq(course_flow_topics, LAMBDA t : InSomeSlide(t, si))
        missing == SelectSeq(course_flow_topics, LAMBDA t : ~ InSomeSlide(t, si))
    IN  [status |-> IF Len(missing) = 0 THEN PASS
                    ELSE IF Len(missing) <= 3 THEN WARN ELSE FAIL,
         found |-> found,
         missing |-> missing]

\* check_exam_weights that fails, not warns, on a missing weight
check_exam_weights_Fail(si) ==
    LET found == {j \in 1..3 : \E i \in DOMAIN si :
                     InText(<<"25-30%", "20-25%", "15-20%">>[j], si[i])}
    IN  [status |-> IF Cardinality(found) = 3 THEN PASS ELSE FAIL,
         found |-> Cardinality(found)]

\* validate_pptx.py:193-197: the keys of weights
weights == <<"25-30%", "20-25%", "15-20%">>

\* validate_pptx.py:191-201 (the weights hold no space, so none can lie
\* across the " " that joins two slides' texts)
check_exam_weights(si) ==
    LET found == {j \in DOMAIN weights : \E i \in DOMAIN si : InText(weights[j], si[i])}
    IN  [status |-> IF Cardinality(found) = Len(weights) THEN PASS ELSE WARN,
         found |-> Cardinality(found)]

\* validate_pptx.py:204-211
check_tables_present(si) ==
    LET table_count == Cardinality({i \in DOMAIN si : si[i].pipe})
    IN  [status |-> IF table_count >= 15 THEN PASS ELSE WARN,
         table_count |-> table_count]

\* The grade table with the second branch "elif warns <= 2", its
\* "fails == 0" left out
Grade_NoFailGuard(f, w) ==
    IF f = 0 /\ w = 0 THEN "A"
    ELSE IF w <= 2 THEN "A-"
    ELSE IF f = 0 THEN "B+"
    ELSE IF f <= 1 THEN "B"
    ELSE IF f <= 2 THEN "C"
    ELSE "D"

\* The grade table with "warns < 2" for "warns <= 2"
Grade_StrictWarns(f, w) ==
    IF f = 0 /\ w = 0 THEN "A"
    ELSE IF f = 0 /\ w < 2 THEN "A-"
    ELSE IF f = 0 THEN "B+"
    ELSE IF f <= 1 THEN "B"
    ELSE IF f <= 2 THEN "C"
    ELSE "D"

\* validate_pptx.py:317-328 the grade decision table
Grade(f, w) ==
    IF f = 0 /\ w = 0 THEN "A"
    ELSE IF f = 0 /\ w <= 2 THEN "A-"
    ELSE IF f = 0 THEN "B+"
    ELSE IF f <= 1 THEN "B"
    ELSE IF f <= 2 THEN "C"
    ELSE "D"

(***************************************************************************)
(* validate_pptx.py:214-334 main                                           *)
(***************************************************************************)

\* A load whose handler prints the failure and goes on with no slides
Load_NoExit ==
    /\ pc \in {"saved", "ready"}
    /\ slides_info' = IF file.state = "ok" THEN extract_slide_info(file.slides) ELSE <<>>
    /\ pc' = "sec1"
    /\ UNCHANGED <<file, report, all_checks, passes, warns, fails, total, grade, exit_code>>
    /\ UNCHANGED builderVars
    /\ UNCHANGED otherVars

\* validate_pptx.py:220-228: Presentation(PPTX_PATH) raises on a missing or
\* unreadable file; the handler prints the failure and calls sys.exit(1)
Load ==
    /\ pc \in {"saved", "ready"}
    /\ IF file.state = "ok"
       THEN /\ slides_info' = extract_slide_info(file.slides)
            /\ pc' = "sec1"
            /\ UNCHANGED exit_code
       ELSE /\ exit_code' = <<1>>
            /\ pc' = "exit"
            /\ UNCHANGED slides_info
    /\ UNCHANGED <<file, report, all_checks, passes, warns, fails, total, grade>>
    /\ UNCHANGED builderVars
    /\ UNCHANGED otherVars

\* A report section that ends the run with status 1 when its check fails
Report_StopOnFail(here, statuses, next) ==
    /\ pc = here
    /\ report' = report \o statuses
    /\ IF \E j \in DOMAIN statuses : statuses[j] = FAIL
       THEN pc' = "exit" /\ exit_code' = <<1>>
       ELSE pc' = next /\ UNCHANGED exit_code
    /\ UNCHANGED <<file, slides_info, all_checks, passes, warns, fails, total, grade>>
    /\ UNCHANGED builderVars
    /\ UNCHANGED otherVars

\* A report section whose check takes the first slide out of the corpus
Report_Consuming(here, statuses, next) ==
    /\ pc = here
    /\ report' = report \o statuses
    /\ slides_info' = IF slides_info = <<>> THEN <<>> ELSE Tail(slides_info)
    /\ pc' = next
    /\ UNCHANGED <<file, all_checks, passes, warns, fails, total, grade, exit_code>>
    /\ UNCHANGED builderVars
    /\ UNCHANGED otherVars

\* One report section: the check is called and its status lines are printed
Report(here, statuses, next) ==
    /\ pc = here
    /\ report' = report \o statuses
    /\ pc' = next
    /\ UNCHANGED <<file, slides_info, all_checks, passes, warns, fails, total,
                   grade, exit_code>>
    /\ UNCHANGED builderVars
    /\ UNCHANGED otherVars

\* One statement of the status collection: the check is called again and
\* its statuses are appended to all_checks
Collect(here, statuses, next) ==
    /\ pc = here
    /\ all_checks' = all_checks \o statuses
    /\ pc' = next
    /\ UNCHANGED <<file, slides_info, report, passes, warns, fails, total,
                   grade, exit_code>>
    /\ UNCHANGED builderVars
    /\ UNCHANGED otherVars

\* [r[0] for r in check_segment_structure(slides_info)]
StructureStatuses(si) ==
    LET results == check_segment_structure(si)
    IN  [k \in DOMAIN results |-> results[k].status]

\* validate_pptx.py:230-234
Section1 == Report("sec1", <<check_slide_count(slides_info).status>>, "sec2")
\* validate_pptx.py:236-242
Section2 == Report("sec2", <<check_segment_dividers(slides_info).status>>, "sec3")
\* validate_pptx.py:244-249
Section3 == Report("sec3", StructureStatuses(slides_info), "sec4")
\* validate_pptx.py:251-255
Section4 == Report("sec4", <<check_decision_matrices(slides_info).status>>, "sec5")
\* validate_pptx.py:257-262
Section5 == Report("sec5", <<check_opening_closing(slides_info)[1].status,
                             check_opening_closing(slides_info)[2].status>>, "sec6")
\* validate_pptx.py:264-268
Section6 == Report("sec6", <<check_course_flow_alignment(slides_info).status>>, "sec7")
\* validate_pptx.py:270-274
Section7 == Report("sec7", <<check_exam_weights(slides_info).status>>, "sec8")
\* validate_pptx.py:276-288 (the slide manifest printed after it changes no state)
Section8 == Report("sec8", <<check_tables_present(slides_info).status>>, "agg1")

\* validate_pptx.py:297
Collect1 == Collect("agg1", <<check_slide_count(slides_info).status>>, "agg2")
\* validate_pptx.py:298
Collect2 == Collect("agg2", <<check_segment_dividers(slides_info).status>>, "agg3")
\* validate_pptx.py:299-300
Collect3 == Collect("agg3", StructureStatuses(slides_info), "agg4")
\* validate_pptx.py:301
Collect4 == Collect("agg4", <<check_decision_matrices(slides_info).status>>, "agg5")
\* validate_pptx.py:302
Collect5 == Collect("agg5", <<check_opening_closing(slides_info)[1].status>>, "agg6")
\* validate_pptx.py:303
Collect6 == Collect("agg6", <<check_opening_closing(slides_info)[2].status>>, "agg7")
\* validate_pptx.py:304
Collect7 == Collect("agg7", <<check_course_flow_alignment(slides_info).status>>, "agg8")
\* validate_pptx.py:305
Collect8 == Collect("agg8", <<check_exam_weights(slides_info).status>>, "agg9")
\* validate_pptx.py:306
Collect9 == Collect("agg9", <<check_tables_present(slides_info).status>>, "count")

\* validate_pptx.py:308-328: the counts and the grade
GradeStep ==
    /\ pc = "count"
    /\ passes' = Count(all_checks, PASS)
    /\ warns' = Count(all_checks, WARN)
    /\ fails' = Count(all_checks, FAIL)
    /\ total' = Len(all_checks)
    /\ grade' = Grade(fails', warns')
    /\ pc' = "graded"
    /\ UNCHANGED <<file, slides_info, report, all_checks, exit_code>>
    /\ UNCHANGED builderVars
    /\ UNCHANGED otherVars

\* A main that ends with status 1 when a check has failed
Finish_FailStatus ==
    /\ pc = "graded"
    /\ exit_code' = IF fails > 0 THEN <<1>> ELSE <<0>>
    /\ pc' = "exit"
    /\ UNCHANGED <<file, slides_info, report, all_checks, passes, warns, fails,
                   total, grade>>
    /\ UNCHANGED builderVars
    /\ UNCHANGED otherVars

\* validate_pptx.py:330-334: main returns and the process ends with status 0
Finish ==
    /\ pc = "graded"
    /\ exit_code' = <<0>>
    /\ pc' = "exit"
    /\ UNCHANGED <<file, slides_info, report, all_checks, passes, warns, fails,
                   total, grade>>
    /\ UNCHANGED builderVars
    /\ UNCHANGED otherVars

\* The statuses main collects, in the order of validate_pptx.py:297-306
AllStatuses(si) ==
    <<check_slide_count(si).status, check_segment_dividers(si).status>>
    \o StructureStatuses(si)
    \o <<check_decision_matrices(si).status,
         check_opening_closing(si)[1].status,
         check_opening_closing(si)[2].status,
         check_course_flow_alignment(si).status,
         check_exam_weights(si).status,
         check_tables_present(si).status>>

Validate ==
    \/ Load
    \/ Section1 \/ Section2 \/ Section3 \/ Section4
    \/ Section5 \/ Section6 \/ Section7 \/ Section8
    \/ Collect1 \/ Collect2 \/ Collect3 \/ Collect4 \/ Collect5
    \/ Collect6 \/ Collect7 \/ Collect8 \/ Collect9
    \/ GradeStep
    \/ Finish

(***************************************************************************)
(* The file between the two scripts                                        *)
(***************************************************************************)

\* seq without its elements a..b
CutRange(seq, a, b) == SubSeq(seq, 1, a - 1) \o SubSeq(seq, b + 1, Len(seq))

\* The deck is truncated before it is validated: one slide is taken out
RemoveSlide ==
    /\ pc = "saved"
    /\ \E i \in 1..Len(file.slides) :
          file' = [file EXCEPT !.slides = CutRange(@, i, i)]
    /\ pc' = "ready"
    /\ UNCHANGED builderVars
    /\ UNCHANGED validatorVars
    /\ UNCHANGED otherVars

\* The file is damaged or replaced by something that is no presentation
CorruptFile ==
    /\ pc = "saved"
    /\ file' = [state |-> "corrupt", slides |-> <<>>]
    /\ pc' = "ready"
    /\ UNCHANGED builderVars
    /\ UNCHANGED validatorVars
    /\ UNCHANGED otherVars

(***************************************************************************)
(* Specifications                                                          *)
(***************************************************************************)

ValidatorIdle ==
    /\ slides_info = <<>>
    /\ report = <<>>
    /\ all_checks = <<>>
    /\ passes = 0
    /\ warns = 0
    /\ fails = 0
    /\ total = 0
    /\ grade = NoGrade
    /\ exit_code = <<>>

BuilderIdle ==
    /\ step = 1
    /\ slide_counter = 0
    /\ prs = <<>>

\* The builder runs, then the validator runs on the file it wrote, on that
\* file with one slide removed, or on a damaged file.
Init ==
    /\ pc = "build"
    /\ BuilderIdle
    /\ file = [state |-> "none", slides |-> <<>>]
    /\ ValidatorIdle
    /\ OthersIdle

Next ==
    \/ HandBuiltSlide
    \/ NewContentSlide
    \/ NewDividerSlide
    \/ NewExamTipSlide
    \/ Save
    \/ RemoveSlide
    \/ CorruptFile
    \/ Validate

Spec == Init /\ [][Next]_vars

\* One run of build_pptx.py alone, in which the row list handed to add_table
\* may be empty
InitBuild ==
    /\ pc = "build"
    /\ BuilderIdle
    /\ file = [state |-> "none", slides |-> <<>>]
    /\ ValidatorIdle
    /\ OthersIdle

NextBuild ==
    \/ HandBuiltSlide
    \/ NewContentSlide
    \/ NewDividerSlide
    \/ NewExamTipSlide
    \/ AddTableRaises
    \/ Save

SpecBuild == InitBuild /\ [][NextBuild]_vars

\* The deck build_pptx.py writes: block i of the script makes slide i
BuiltDeck ==
    [i \in 1..NumBlocks |->
        add_footer(AddContent(IF Plan[i].kind = "exam_tip"
                                 THEN ExamTipSubtitle(BlankSlide(Plan[i].kind))
                                 ELSE BlankSlide(Plan[i].kind),
                              Plan[i]),
                   Plan[i].seg, i)]

\* BuiltDeck is the file the builder of Spec saves, and the statuses main
\* has collected are those of the checks on the loaded corpus: the initial
\* states of SpecChecks and SpecGrade are states a run of the scripts reaches
ModelConsistent ==
    /\ pc = "saved" => file = [state |-> "ok", slides |-> BuiltDeck]
    /\ pc \in {"count", "graded"} =>
          /\ all_checks = AllStatuses(slides_info)
          /\ report = all_checks
          /\ slides_info = extract_slide_info(file.slides)

\* The validator run on any deck obtained from the built deck by taking
\* out a run of consecutive slides (or none), or on a damaged file.
InputFiles ==
    {[state |-> "ok", slides |-> BuiltDeck], [state |-> "corrupt", slides |-> <<>>]}
    \cup {[state |-> "ok", slides |-> CutRange(BuiltDeck, r[1], r[2])] :
            r \in {q \in (1..NumBlocks) \X (1..NumBlocks) : q[1] <= q[2]}}

InitChecks ==
    /\ pc = "ready"
    /\ BuilderIdle
    /\ file \in InputFiles
    /\ ValidatorIdle
    /\ OthersIdle

SpecChecks == InitChecks /\ [][Validate]_vars

\* main is a sequential script: its next statement always runs
SpecChecksFair == SpecChecks /\ WF_vars(Validate)

\* seq[:n] as a set
FirstOf(seq, n) == {seq[j] : j \in 1..n}

\* A text that holds "compute decision" holds "compute", and one that holds
\* "azure firewall" holds "firewall": the only validator keywords that lie
\* inside another one
SubstringClosed(S) ==
    S \cup (IF "compute decision" \in S THEN {"compute"} ELSE {})
      \cup (IF "azure firewall" \in S THEN {"firewall"} ELSE {})

\* Decks written to vary every check on its own.  c.n slides; slide 1 holds
\* the divider topics and weights (c.div = "all"), the three weights of
\* check_exam_weights alone ("weights") or neither ("none"); slide 2 the first
\* c.mat decision-matrix keywords; slide 3 the first c.open opening keywords;
\* slide 4 the course-flow topics but the first c.flow; the first slide of
\* each segment of c.seg (the first k segments) the four markers; the last
\* slide the first c.close closing keywords; the first c.tables slides a
\* " | " line.
SynthKw(c, i) ==
    (IF i = 1 /\ c.div = "all"
        THEN {Lower(expected_dividers[j].topic) : j \in DOMAIN expected_dividers}
             \cup {expected_dividers[j].weight : j \in DOMAIN expected_dividers}
        ELSE {})
    \cup (IF i = 1 /\ c.div = "weights" THEN FirstOf(weights, Len(weights)) ELSE {})
    \cup (IF i = 2 THEN FirstOf(key_matrices, c.mat) ELSE {})
    \cup (IF i = 3 THEN FirstOf(opening_keywords, c.open) ELSE {})
    \cup (IF i = 4 THEN {course_flow_topics[j] : j \in (c.flow + 1)..Len(course_flow_topics)}
          ELSE {})
    \cup (IF \E k \in c.seg : i = segments[k].start
          THEN {segment_checks[j].marker : j \in DOMAIN segment_checks} ELSE {})
    \cup (IF i = c.n THEN FirstOf(closing_keywords, c.close) ELSE {})

SynthDeck(c) ==
    [i \in 1..c.n |->
        [kind |-> "content", seg |-> 0, footer |-> i,
         kw |-> SubstringClosed(SynthKw(c, i)), cols |-> 0, pipe |-> i <= c.tables]]

SynthChoices ==
    [n : {ExpectedSlides - 1, ExpectedSlides},
     div : {"all", "weights", "none"},
     mat : {4, 5, 7},
     open : {6, 7},
     flow : {0, 3, 4},
     seg : {1..k : k \in 0..Len(segments)},
     close : {3, 4},
     tables : {14, 15}]

\* The validator at the point where it has collected the statuses of a deck
InitGrade ==
    /\ pc = "count"
    /\ BuilderIdle
    /\ \E c \in SynthChoices : file = [state |-> "ok", slides |-> SynthDeck(c)]
    /\ slides_info = extract_slide_info(file.slides)
    /\ all_checks = AllStatuses(slides_info)
    /\ report = all_checks
    /\ passes = 0
    /\ warns = 0
    /\ fails = 0
    /\ total = 0
    /\ grade = NoGrade
    /\ exit_code = <<>>
    /\ OthersIdle

NextGrade == GradeStep \/ Finish

SpecGrade == InitGrade /\ [][NextGrade]_vars

(***************************************************************************)
(* Objective sync: .github/scripts/sync_objectives.py                      *)
(***************************************************************************)

\* The dash characters a weight can be written with.  The regular
\* expression of the script holds, between the two \d+, the three characters
\* U+00E2 U+20AC U+201C (the UTF-8 bytes of an en dash read as Windows-1252
\* and saved again): MojibakeDash is that three-character string.
EnDash == "U+2013"
EmDash == "U+2014"
Hyphen == "-"
MojibakeDash == "U+00E2 U+20AC U+201C"

\* The runs of digits of the strings of this model
IsDigits(tok) == tok \in {"15", "20", "25", "30"}

\* str.strip(): leading and trailing white space removed
RECURSIVE LStrip(_)
LStrip(str) == IF str # <<>> /\ Head(str) = " " THEN LStrip(Tail(str)) ELSE str

RECURSIVE RStrip(_)
RStrip(str) ==
    IF str # <<>> /\ str[Len(str)] = " " THEN RStrip(SubSeq(str, 1, Len(str) - 1)) ELSE str

Strip(str) == LStrip(RStrip(str))

\* needle in str
Contains(str, needle) ==
    \E i \in 1..(Len(str) - Len(needle) + 1) : SubSeq(str, i, i + Len(needle) - 1) = needle

\* str.split(sep)[0]: the part of str before the first sep, str without one
SplitHead(str, sep) ==
    IF \E i \in DOMAIN str : str[i] = sep
    THEN SubSeq(str, 1, (CHOOSE i \in DOMAIN str :
                            str[i] = sep /\ \A j \in 1..(i - 1) : str[j] # sep) - 1)
    ELSE str

\* sep.join(lines)
RECURSIVE Join(_, _)
Join(lines, sep) ==
    IF lines = <<>> THEN <<>>
    ELSE IF Len(lines) = 1 THEN lines[1]
    ELSE lines[1] \o <<sep>> \o Join(Tail(lines), sep)

\* str.split(sep), all parts
RECURSIVE Split(_, _)
Split(str, sep) ==
    IF \E i \in DOMAIN str : str[i] = sep
    THEN LET head == SplitHead(str, sep)
         IN  <<head>> \o Split(SubSeq(str, Len(head) + 2, Len(str)), sep)
    ELSE <<str>>

\* k in word, for a keyword k of emoji_map and a word of a title: the test is
\* case-sensitive ("identity" holds no keyword), and "Networking" holds "Network"
WordHolds(word, k) ==
    \/ word = k
    \/ word = "Networking" /\ k = "Network"
    \/ word = "Database" /\ k = "Data"

\* k in title
KeywordIn(k, title) == \E i \in DOMAIN title : WordHolds(title[i], k)

\* sync_objectives.py:49-58 emoji_map, in the order of the dict literal; v
\* names the label string of the source line
emoji_map == <<
    [k |-> "Identity", v |-> "emoji_Identity"],
    [k |-> "Data", v |-> "emoji_Data"],
    [k |-> "Business", v |-> "emoji_Business"],
    [k |-> "Infrastructure", v |-> "emoji_Infrastructure"],
    [k |-> "Compute", v |-> "emoji_Compute"],
    [k |-> "Application", v |-> "emoji_Application"],
    [k |-> "Migration", v |-> "emoji_Migration"],
    [k |-> "Network", v |-> "emoji_Network"] >>

\* sync_objectives.py:71,81 the default of next(...)
default_emoji == "emoji_default"

\* sync_objectives.py:68,78 section['title'].split('(')[0].strip()
section_title(title) == Strip(SplitHead(title, "("))

\* re.search(r'\((\d+<MojibakeDash>\d+%)\)', title) matches at position i
WeightMatchAt(title, i) ==
    /\ i + 5 <= Len(title)
    /\ title[i] = "("
    /\ IsDigits(title[i + 1])
    /\ title[i + 2] = MojibakeDash
    /\ IsDigits(title[i + 3])
    /\ title[i + 4] = "%"
    /\ title[i + 5] = ")"

\* sync_objectives.py:69-70,79-80: group 1 of the leftmost match, '' without one
section_weight(title) ==
    IF \E i \in DOMAIN title : WeightMatchAt(title, i)
    THEN LET i == CHOOSE i \in DOMAIN title :
                     WeightMatchAt(title, i) /\ \A j \in 1..(i - 1) : ~ WeightMatchAt(title, j)
         IN  SubSeq(title, i + 1, i + 4)
    ELSE <<>>

\* The label of the last keyword of emoji_map that is in the title
section_emoji_LastMatch(title) ==
    IF \E j \in DOMAIN emoji_map : KeywordIn(emoji_map[j].k, title)
    THEN emoji_map[CHOOSE j \in DOMAIN emoji_map :
                      /\ KeywordIn(emoji_map[j].k, title)
                      /\ \A h \in (j + 1)..Len(emoji_map) : ~ KeywordIn(emoji_map[h].k, title)].v
    ELSE default_emoji

\* sync_objectives.py:71,81 next((v for k, v in emoji_map.items() if k in title), default)
section_emoji(title) ==
    IF \E j \in DOMAIN emoji_map : KeywordIn(emoji_map[j].k, title)
    THEN emoji_map[CHOOSE j \in DOMAIN emoji_map :
                      /\ KeywordIn(emoji_map[j].k, title)
                      /\ \A h \in 1..(j - 1) : ~ KeywordIn(emoji_map[h].k, title)].v
    ELSE default_emoji

\* sync_objectives.py:72 f"- {title} ({weight})"
summary_line(section) ==
    <<"-", " ">> \o section_title(section.title) \o <<" ", "(">>
        \o section_weight(section.title) \o <<")">>

\* sync_objectives.py:83 f"### {i}. {emoji} {title} ({weight})\n"
detail_heading(i, section) ==
    <<"###", " ", ToString(i), ".", " ", section_emoji(section_title(section.title)), " ">>
        \o section_title(section.title) \o <<" ", "(">>
        \o section_weight(section.title) \o <<")", "\n">>

\* sync_objectives.py:85 f"- {item}"
bullet_line(item) == <<"-", " ">> \o item

\* A detail block that lists the items last to first
detail_block_Reversed(i, section) ==
    <<detail_heading(i, section)>>
        \o [j \in DOMAIN section.items |->
               bullet_line(section.items[Len(section.items) + 1 - j])]
        \o << <<>> >>

\* sync_objectives.py:83-86: the lines of one detail block
detail_block(i, section) ==
    <<detail_heading(i, section)>>
        \o [j \in DOMAIN section.items |-> bullet_line(section.items[j])]
        \o << <<>> >>

RECURSIVE detail_blocks(_, _)
detail_blocks(sections, i) ==
    IF i > Len(sections) THEN <<>>
    ELSE detail_block(i, sections[i]) \o detail_blocks(sections, i + 1)

\* sync_objectives.py:60-86 the list md
md_lines(obj) ==
    << <<"#", " ", "emoji_trophy", " ", "AZ-305: Azure Solutions Architect Expert", "\n">>,
       <<">", " ", "emoji_calendar", " ">> \o obj.last_updated \o <<"\n">>,
       <<"##", " ", "emoji_target", " ", "Exam Sections", "\n">> >>
    \o [j \in DOMAIN obj.sections |-> summary_line(obj.sections[j])]
    \o << <<"\n", "##", " ", "emoji_books", " ", "Technical Requirements", "\n">> >>
    \o detail_blocks(obj.sections, 1)

\* sync_objectives.py:47-88 generate_markdown
generate_markdown(obj) == Join(md_lines(obj), "\n")

\* An element of the page after the matched heading, in document order:
\* name is its tag, text its text (a heading), items its list items (a list).
\* A list item is [text, sub]: its own text and the items of a list nested
\* inside it.
Element(name, text, items) == [name |-> name, text |-> text, items |-> items]

\* section.find_all_next(['h3', 'ul']) over one element: the element itself when
\* it is an h3 or a ul, and after a ul the lists nested in its items, which
\* are ul elements of the document too
NextOf(elem) ==
    IF elem.name = "h3" THEN <<elem>>
    ELSE IF elem.name = "ul"
    THEN LET nested == SelectSeq(elem.items, LAMBDA li : li.sub # <<>>)
         IN  <<elem>> \o [j \in DOMAIN nested |->
                             Element("ul", <<>>,
                                     [h \in DOMAIN nested[j].sub |->
                                         [text |-> nested[j].sub[h], sub |-> <<>>]])]
    ELSE <<>>

\* sync_objectives.py:30 section.find_all_next(['h3', 'ul'])
RECURSIVE find_all_next(_)
find_all_next(elems) ==
    IF elems = <<>> THEN <<>> ELSE NextOf(Head(elems)) \o find_all_next(Tail(elems))

\* item.text of a list item: its own text followed by the text of its descendants
RECURSIVE Concat(_)
Concat(strs) == IF strs = <<>> THEN <<>> ELSE Head(strs) \o Concat(Tail(strs))

\* sync_objectives.py:39-40 [item.text.strip() for item in elem.find_all('li')]:
\* find_all returns every descendant li, the items of nested lists included
RECURSIVE items_of(_)
items_of(lis) ==
    IF lis = <<>> THEN <<>>
    ELSE LET li == Head(lis)
         IN  <<Strip(li.text \o Concat(li.sub))>>
                 \o [h \in DOMAIN li.sub |-> Strip(li.sub[h])]
                 \o items_of(Tail(lis))

\* sync_objectives.py:30-40 the loop, from element i on; current is <<>> for
\* None and <<section>> otherwise
RECURSIVE parse_loop(_, _, _, _)
parse_loop(found, i, sections, current) ==
    IF i > Len(found)
    THEN [sections |-> sections, current |-> current]
    ELSE IF found[i].name = "h3"
    THEN parse_loop(found, i + 1, sections \o current,
                    << [title |-> Strip(found[i].text), items |-> <<>>] >>)
    ELSE IF current # <<>>
    THEN parse_loop(found, i + 1, sections,
                    << [current[1] EXCEPT !.items = @ \o items_of(found[i].items)] >>)
    ELSE parse_loop(found, i + 1, sections, current)

\* datetime.now().strftime('%B %d, %Y')
last_updated_now == <<"November", " ", "05", ",", " ", "2026">>

\* sync_objectives.py:22-45 parse_objectives
parse_objectives(elems) ==
    LET end == parse_loop(find_all_next(elems), 1, <<>>, <<>>)
    IN  [last_updated |-> last_updated_now,
         sections |-> end.sections \o end.current]

\* An uncaught exception ends the script: the interpreter prints the
\* traceback and exits with status 1
Raise ==
    /\ pc' = "exit"
    /\ exit_code' = <<1>>

\* update_objectives_file without the test of exam_url
GetEnv_NoCheck ==
    /\ pc = "sync"
    /\ pc' = "fetch"
    /\ UNCHANGED <<EXAM_URL, page, http_requests, objectives, markdown, out_file, exit_code>>
    /\ UNCHANGED <<builderVars, file, slides_info, report, all_checks, passes, warns,
                   fails, total, grade>>
    /\ UNCHANGED fetchVars

\* sync_objectives.py:92-94 os.getenv('EXAM_URL') and its test
GetEnv ==
    /\ pc = "sync"
    /\ IF EXAM_URL = "set"
       THEN pc' = "fetch" /\ UNCHANGED exit_code
       ELSE Raise
    /\ UNCHANGED <<EXAM_URL, page, http_requests, objectives, markdown, out_file>>
    /\ UNCHANGED <<builderVars, file, slides_info, report, all_checks, passes, warns,
                   fails, total, grade>>
    /\ UNCHANGED fetchVars

\* sync_objectives.py:11-12 requests.get(url) and raise_for_status(): a
\* connection error raises in get, an HTTP error status in raise_for_status
Fetch ==
    /\ pc = "fetch"
    /\ http_requests' = http_requests + 1
    /\ IF page.status = "ok"
       THEN pc' = "find" /\ UNCHANGED exit_code
       ELSE Raise
    /\ UNCHANGED <<EXAM_URL, page, objectives, markdown, out_file>>
    /\ UNCHANGED <<builderVars, file, slides_info, report, all_checks, passes, warns,
                   fails, total, grade>>
    /\ UNCHANGED fetchVars

\* sync_objectives.py:13-20 the search of the heading, then parse_objectives
FindSkills ==
    /\ pc = "find"
    /\ IF page.skills
       THEN /\ objectives' = parse_objectives(page.elems)
            /\ pc' = "render"
            /\ UNCHANGED exit_code
       ELSE Raise /\ UNCHANGED objectives
    /\ UNCHANGED <<EXAM_URL, page, http_requests, markdown, out_file>>
    /\ UNCHANGED <<builderVars, file, slides_info, report, all_checks, passes, warns,
                   fails, total, grade>>
    /\ UNCHANGED fetchVars

\* sync_objectives.py:97
Render ==
    /\ pc = "render"
    /\ markdown' = generate_markdown(objectives)
    /\ pc' = "open"
    /\ UNCHANGED <<EXAM_URL, page, http_requests, objectives, out_file, exit_code>>
    /\ UNCHANGED <<builderVars, file, slides_info, report, all_checks, passes, warns,
                   fails, total, grade>>
    /\ UNCHANGED fetchVars

\* sync_objectives.py:99 open(..., 'w'): the file is created or truncated
OpenFile ==
    /\ pc = "open"
    /\ out_file' = [state |-> "open", content |-> <<>>]
    /\ pc' = "write"
    /\ UNCHANGED <<EXAM_URL, page, http_requests, objectives, markdown, exit_code>>
    /\ UNCHANGED <<builderVars, file, slides_info, report, all_checks, passes, warns,
                   fails, total, grade>>
    /\ UNCHANGED fetchVars

\* sync_objectives.py:100-103 f.write(markdown), the file is closed and the
\* script ends
WriteFile ==
    /\ pc = "write"
    /\ out_file' = [state |-> "written", content |-> markdown]
    /\ pc' = "exit"
    /\ exit_code' = <<0>>
    /\ UNCHANGED <<EXAM_URL, page, http_requests, objectives, markdown>>
    /\ UNCHANGED <<builderVars, file, slides_info, report, all_checks, passes, warns,
                   fails, total, grade>>
    /\ UNCHANGED fetchVars

Sync == GetEnv \/ Fetch \/ FindSkills \/ Render \/ OpenFile \/ WriteFile

\* Titles of objective groups: a name, then nothing or a weight in
\* parentheses written with one of the four dashes
TitleNames == {
    <<"Identity">>,
    <<"Design", " ", "identity">>,
    <<"Networking", " ", "and", " ", "Data">>,
    <<"Design", " ", "(", "core", ")", " ", "Compute">>,
    <<"Design">> }

WeightSuffix(dash) == <<" ", "(", "25", dash, "30", "%", ")">>

Titles ==
    TitleNames
    \cup {name \o WeightSuffix(dash) :
            name \in TitleNames, dash \in {EnDash, EmDash, Hyphen, MojibakeDash}}

ListOf(texts) == Element("ul", <<>>, [j \in DOMAIN texts |-> [text |-> texts[j], sub |-> <<>>]])

\* The elements a page is made of: two headings of groups (one written with
\* white space around its text), a two-item and a one-item list, a list
\* whose item holds a nested list, a heading of another level and a paragraph
PageAlphabet == {
    Element("h3", <<" ">> \o <<"Identity">> \o WeightSuffix(EnDash) \o <<" ">>, <<>>),
    Element("h3", <<"Design", " ", "Data">>, <<>>),
    ListOf(<< <<"a">>, <<"b">> >>),
    ListOf(<< <<"c">> >>),
    Element("ul", <<>>, << [text |-> <<"d">>, sub |-> << <<"e">> >>] >>),
    Element("h2", <<"Study", " ", "resources">>, <<>>),
    Element("p", <<"text">>, <<>>) }

MaxElems == 3

\* The element lists after the matched heading: one group with any of the
\* titles and the items a, b, and every list of at most MaxElems elements
PageElems ==
    {<<Element("h3", t, <<>>), ListOf(<< <<"a">>, <<"b">> >>)>> : t \in Titles}
    \cup UNION {[1..n -> PageAlphabet] : n \in 0..MaxElems}

\* sync_objectives.py is started with any environment on any page
InitSync ==
    /\ pc = "sync"
    /\ BuilderIdle
    /\ file = [state |-> "none", slides |-> <<>>]
    /\ ValidatorIdle
    /\ EXAM_URL \in {"absent", "empty", "set"}
    /\ page \in [status : {"ok", "http_error", "unreachable"},
                 skills : BOOLEAN,
                 elems : PageElems]
    /\ http_requests = 0
    /\ objectives = <<>>
    /\ markdown = <<>>
    /\ out_file = [state |-> "untouched", content |-> <<>>]
    /\ FetchIdle

SpecSync == InitSync /\ [][Sync]_vars

\* The number of sections handed to generate_markdown
MaxSections == 3

\* The sections handed to generate_markdown: a title with a weight the
\* expression of line 69 matches, one with an en dash weight and one with
\* none, and at most two of the items a, b
RenderSections ==
    [title : {<<"Identity">> \o WeightSuffix(MojibakeDash),
              <<"Compute">> \o WeightSuffix(EnDash),
              <<"Design", " ", "Data">>},
     items : UNION {[1..n -> {<<"a">>, <<"b">>}] : n \in 0..2}]

\* sync_objectives.py:97 generate_markdown is called on any list of at most
\* MaxSections sections
InitRender ==
    /\ pc = "render"
    /\ BuilderIdle
    /\ file = [state |-> "none", slides |-> <<>>]
    /\ ValidatorIdle
    /\ EXAM_URL = "set"
    /\ page = [status |-> "ok", skills |-> TRUE, elems |-> <<>>]
    /\ http_requests = 1
    /\ \E n \in 0..MaxSections : \E sections \in [1..n -> RenderSections] :
          objectives = [last_updated |-> last_updated_now, sections |-> sections]
    /\ markdown = <<>>
    /\ out_file = [state |-> "untouched", content |-> <<>>]
    /\ FetchIdle

NextRender == Render \/ OpenFile \/ WriteFile

SpecRender == InitRender /\ [][NextRender]_vars

(***************************************************************************)
(* Diagram fetchers: scrape_azure_diagrams.py and download_diagrams.py     *)
(***************************************************************************)

deckVars == <<builderVars, file, slides_info, report, all_checks, passes, warns,
              fails, total, grade>>

\* An entry of events: a request ("get"), a delay ("sleep") or a printed
\* error message ("error") and what it is about: <<"item", i>>, <<"page", p>>,
\* <<"image", p, j>>, or <<"page", p, "urljoin", j>> for the message of
\* process_page about the exception urljoin raised at tag j
Event(op, at) == [op |-> op, at |-> at]

\* scrape_azure_diagrams.py:6-34 ARCHITECTURE_IMAGES, by the file name of each pair
ARCHITECTURE_IMAGES == <<
    "microservices-architecture.png", "aks-baseline-architecture.png",
    "hub-spoke-architecture.png", "scalable-web-app-architecture.png",
    "service-endpoints.png", "private-endpoint-basics.png",
    "private-link-service.png", "private-dns-portal.png",
    "vnet-routing-overview.png", "azure-dns-overview.png",
    "private-resolver-overview.png", "custom-domain-dns.png",
    "conditional-access-overview.png", "conditional-access-what-if.png",
    "conditional-access-location.png", "aks-secure-baseline.png",
    "aks-devsecops.png", "acr-service-tiers.png" >>

\* requests.get followed by raise_for_status raises for every answer but a
\* success status, and when no answer comes
Raises(status) == status # "ok"

\* scrape_azure_diagrams.py:41-54 download_image: the value returned and the
\* directory afterwards
download_image(status, filename, dir) ==
    IF Raises(status)
    THEN [ret |-> FALSE, dir |-> dir]
    ELSE [ret |-> TRUE, dir |-> dir \cup {filename}]

\* The number of items of the fixed list (downloads of scrape_azure_diagrams.py,
\* pages of download_diagrams.py) whose request may fail in one run
MaxFailures == 2

\* scrape_azure_diagrams.py:36-39,58,64 create_images_dir
CreateImagesDir ==
    /\ pc = "download"
    /\ pc' = "items"
    /\ UNCHANGED <<fetchVars, syncVars, deckVars, exit_code>>

\* scrape_azure_diagrams.py:60-61 one turn of the loop: download_image is called
\* and its value dropped
DownloadItem ==
    /\ pc = "items"
    /\ item_idx <= Len(ARCHITECTURE_IMAGES)
    /\ \E status \in {"ok", "not_found", "unreachable"} :
          LET result == download_image(status, ARCHITECTURE_IMAGES[item_idx], images_dir)
          IN  /\ Raises(status) => (item_idx - 1) - Cardinality(images_dir) < MaxFailures
              /\ images_dir' = result.dir
              /\ events' = events \o <<Event("get", <<"item", item_idx>>)>>
                              \o (IF result.ret THEN <<>>
                                  ELSE <<Event("error", <<"item", item_idx>>)>>)
    /\ item_idx' = item_idx + 1
    /\ UNCHANGED <<pc, imgs, img, image_count, total_images, imgs_seen>>
    /\ UNCHANGED <<syncVars, deckVars, exit_code>>

\* scrape_azure_diagrams.py:66 the loop has ended and the script ends
DownloadDone ==
    /\ pc = "items"
    /\ item_idx > Len(ARCHITECTURE_IMAGES)
    /\ pc' = "exit"
    /\ exit_code' = <<0>>
    /\ UNCHANGED <<fetchVars, syncVars, deckVars>>

Download == CreateImagesDir \/ DownloadItem \/ DownloadDone

\* download_diagrams.py:13-27 pages, by the last segment of each URL (the
\* part after the last "/" once a trailing "/" is dropped)
pages == <<
    <<"guide">>,
    <<"architecture", "-", "styles">>,
    <<"technology", "-", "choices">>,
    <<"patterns">>,
    <<"framework">>,
    <<"reference", "-", "architectures">>,
    <<"example", "-", "scenario">>,
    <<"browse">>,
    <<"security", "-", "start", "-", "here">>,
    <<"security", "-", "principles">>,
    <<"backup", "-", "and", "-", "recovery">>,
    <<"performance", "-", "efficiency">>,
    <<"compute", "-", "decision", "-", "tree">> >>

\* download_diagrams.py:29-35 clean_filename on the last segment: "-"
\* becomes "_", and the segments hold no character the pattern removes
clean_filename(segment) ==
    [j \in DOMAIN segment |-> IF segment[j] = "-" THEN "_" ELSE segment[j]]

\* The extension with the png test ahead of the svg test
image_ext_PngFirst(ctype, suffix) ==
    IF "png" \in ctype \/ suffix = ".png" THEN ".png"
    ELSE IF "svg" \in ctype \/ suffix = ".svg" THEN ".svg"
    ELSE IF "jpg" \in ctype \/ "jpeg" \in ctype \/ suffix \in {".jpg", ".jpeg"} THEN ".jpg"
    ELSE ".png"

\* download_diagrams.py:44-52 the extension.  ctype is the set of those
\* of "svg", "png", "jpg", "jpeg" that the content-type header holds (none
\* without a header), suffix the end of the URL
image_ext(ctype, suffix) ==
    IF "svg" \in ctype \/ suffix = ".svg" THEN ".svg"
    ELSE IF "png" \in ctype \/ suffix = ".png" THEN ".png"
    ELSE IF "jpg" \in ctype \/ "jpeg" \in ctype \/ suffix \in {".jpg", ".jpeg"} THEN ".jpg"
    ELSE ".png"

\* download_diagrams.py:37-63 download_image: the value returned and the
\* directory afterwards.  image is the img tag, whose status, ctype and
\* suffix say how its URL answers
scrape_download_image(image, filename, dir) ==
    IF Raises(image.status)
    THEN [ret |-> FALSE, dir |-> dir]
    ELSE [ret |-> TRUE,
          dir |-> dir \cup {filename \o <<image_ext(image.ctype, image.suffix)>>}]

\* A file name without the count of the page
image_filename_NoSuffix(page_name, count) == page_name

\* download_diagrams.py:96 filename
image_filename(page_name, count) ==
    IF count > 0 THEN page_name \o <<"_", ToString(count)>> ELSE page_name

\* An img tag.  src is "empty" (no src), "icon" (a URL with none of the
\* words architecture, diagram, reference), "diagram" (a URL with one of
\* them) or "malformed" (a relative src urljoin rejects with ValueError, such
\* as "//[architecture")
ImgTag(src, status, ctype, suffix) ==
    [src |-> src, status |-> status, ctype |-> ctype, suffix |-> suffix]

\* The img tags of the pages of a run
WebImgs == {
    ImgTag("empty", "ok", {}, ""),
    ImgTag("icon", "ok", {"png"}, ".png"),
    ImgTag("malformed", "ok", {}, ""),
    ImgTag("diagram", "ok", {"png"}, ".png"),
    ImgTag("diagram", "not_found", {}, ".png") }

\* The number of img tags the pages of one run hold together
MaxTags == 2

\* The number of pages whose fetch has failed so far
PageFailures ==
    Cardinality({j \in DOMAIN events :
                    events[j] = Event("error", <<"page", events[j].at[2]>>)
                    /\ j > 1 /\ events[j - 1] = Event("get", events[j].at)})

\* download_diagrams.py:110-112,67-82 main takes the next page and
\* process_page fetches it; a failed fetch is caught in process_page, which
\* returns 0 (lines 103-105,113-114)
PageGet ==
    /\ pc = "scrape"
    /\ item_idx <= Len(pages)
    /\ \/ /\ PageFailures < MaxFailures
          /\ events' = events \o <<Event("get", <<"page", item_idx>>),
                                   Event("error", <<"page", item_idx>>)>>
          /\ item_idx' = item_idx + 1
          /\ UNCHANGED <<pc, imgs, img, image_count, imgs_seen>>
       \/ \E n \in 0..(MaxTags - imgs_seen) : \E found \in [1..n -> WebImgs] :
             /\ events' = Append(events, Event("get", <<"page", item_idx>>))
             /\ imgs' = found
             /\ imgs_seen' = imgs_seen + n
             /\ img' = 1
             /\ image_count' = 0
             /\ pc' = "images"
             /\ UNCHANGED item_idx
    /\ UNCHANGED <<total_images, images_dir>>
    /\ UNCHANGED <<syncVars, deckVars, exit_code>>

\* download_diagrams.py:85-100 one turn of the loop of process_page.  A
\* tag without src and a URL without a keyword are passed over; urljoin
\* raising ends process_page in its handler, which returns 0 (lines 103-105);
\* a download that returns True is counted and followed by time.sleep(1)
NextImage ==
    /\ pc = "images"
    /\ img <= Len(imgs)
    /\ LET image == imgs[img]
           at == <<"image", item_idx, img>>
           result == scrape_download_image(
                         image, image_filename(clean_filename(pages[item_idx]), image_count),
                         images_dir)
       IN  CASE image.src \in {"empty", "icon"} ->
                  /\ img' = img + 1
                  /\ UNCHANGED <<pc, item_idx, image_count, images_dir, events>>
             [] image.src = "malformed" ->
                  /\ events' = Append(events, Event("error", <<"page", item_idx, "urljoin", img>>))
                  /\ item_idx' = item_idx + 1
                  /\ pc' = "scrape"
                  /\ UNCHANGED <<img, image_count, images_dir>>
             [] image.src = "diagram" ->
                  /\ images_dir' = result.dir
                  /\ image_count' = IF result.ret THEN image_count + 1 ELSE image_count
                  /\ events' = events \o <<Event("get", at)>>
                                  \o (IF result.ret THEN <<Event("sleep", at)>>
                                      ELSE <<Event("error", at)>>)
                  /\ img' = img + 1
                  /\ UNCHANGED <<pc, item_idx>>
    /\ UNCHANGED <<imgs, total_images, imgs_seen>>
    /\ UNCHANGED <<syncVars, deckVars, exit_code>>

\* download_diagrams.py:102,112-114 process_page returns image_count and
\* main adds it to total_images
PageDone ==
    /\ pc = "images"
    /\ img > Len(imgs)
    /\ total_images' = total_images + image_count
    /\ item_idx' = item_idx + 1
    /\ pc' = "scrape"
    /\ UNCHANGED <<imgs, img, image_count, images_dir, events, imgs_seen>>
    /\ UNCHANGED <<syncVars, deckVars, exit_code>>

\* download_diagrams.py:116-119 the total is printed and the script ends
ScrapeDone ==
    /\ pc = "scrape"
    /\ item_idx > Len(pages)
    /\ pc' = "exit"
    /\ exit_code' = <<0>>
    /\ UNCHANGED <<fetchVars, syncVars, deckVars>>

Scrape == PageGet \/ NextImage \/ PageDone \/ ScrapeDone

\* One of the two diagram fetchers is started
InitFetch ==
    /\ pc \in {"download", "scrape"}
    /\ BuilderIdle
    /\ file = [state |-> "none", slides |-> <<>>]
    /\ ValidatorIdle
    /\ SyncIdle
    /\ FetchIdle

NextFetch == Download \/ Scrape

SpecFetch == InitFetch /\ [][NextFetch]_vars

\* The fetchers are sequential scripts: their next statement always runs
SpecFetchFair == SpecFetch /\ WF_vars(NextFetch)

\* The img tags with a keyword in their URL, by every way their URL can
\* answer: the words of line 45-49 the content-type holds, the end of the URL
\* (".gif" and "" stand for the ends the code does not name) and the status
DiagramTags ==
    {ImgTag("diagram", status, ctype, suffix) :
        status \in {"ok", "not_found"},
        ctype \in SUBSET {"svg", "png", "jpg", "jpeg"},
        suffix \in {".svg", ".png", ".jpg", ".jpeg", ".gif", ""}}

\* download_diagrams.py:67-82 process_page has fetched the first page, which
\* holds one img tag with a keyword, and is about to enter its loop
InitExt ==
    /\ pc = "images"
    /\ BuilderIdle
    /\ file = [state |-> "none", slides |-> <<>>]
    /\ ValidatorIdle
    /\ SyncIdle
    /\ item_idx = 1
    /\ \E tag \in DiagramTags : imgs = <<tag>>
    /\ img = 1
    /\ image_count = 0
    /\ total_images = 0
    /\ images_dir = {}
    /\ events = <<Event("get", <<"page", 1>>)>>
    /\ imgs_seen = 1

NextExt == NextImage \/ PageDone

SpecExt == InitExt /\ [][NextExt]_vars

(***************************************************************************)
(* Claims                                                                  *)
(***************************************************************************)

\* C1: after every slide-creation step slide_counter equals the number of
\* slides of the presentation and the number in each footer is the slide's
\* 1-based position; once all blocks have run the counter is 97, and the
\* saved file holds 97 slides.
C1_CounterCountsSlides ==
    /\ slide_counter = Len(prs)
    /\ \A i \in 1..Len(prs) : prs[i].footer = i
    /\ pc # "build" => slide_counter = 97
    /\ pc = "saved" => Len(file.slides) = 97

C1_Witness == pc = "saved" /\ slide_counter = 97 /\ prs[97].footer = 97

\* C2: the segment ids of the built slides never decrease in slide order; a
\* slide carries segment id k in 1..5 exactly when its number lies in the
\* validator's range of segment k; slides 1-8 carry 0, slides 93-97 carry 6.
C2_PositionalContract ==
    \A i \in 1..Len(prs) :
        /\ \A j \in 1..i : prs[j].seg <= prs[i].seg
        /\ \A k \in 1..5 :
              prs[i].seg = k <=> (segments[k].start <= i /\ i <= segments[k].end)
        /\ i <= 8 => prs[i].seg = 0
        /\ i >= 93 => prs[i].seg = 6

C2_Witness ==
    /\ pc = "saved"
    /\ prs[8].seg = 0 /\ prs[9].seg = 1 /\ prs[92].seg = 5 /\ prs[93].seg = 6

\* C3: in the generated deck every segment 1..5 has exactly one divider
\* slide, that slide is the first slide of the segment and itself holds the
\* expected topic and the weight string; check_segment_dividers on the
\* generated deck is PASS with 5 found, and so is the status the validator
\* reports for it.
C3_DividersCarryWeights ==
    /\ pc = "saved" =>
          LET deck == file.slides
              result == check_segment_dividers(extract_slide_info(deck))
          IN  /\ \A k \in 1..5 :
                    LET dividers == {i \in DOMAIN deck :
                                        deck[i].kind = "divider" /\ deck[i].seg = k}
                    IN  /\ Cardinality(dividers) = 1
                        /\ \A i \in dividers :
                              /\ \A j \in DOMAIN deck : deck[j].seg = k => i <= j
                              /\ Lower(expected_dividers[k].topic) \in deck[i].kw
                              /\ expected_dividers[k].weight \in deck[i].kw
              /\ Cardinality({i \in DOMAIN deck : deck[i].kind = "divider"}) = 5
              /\ result.status = PASS
              /\ Len(result.found) = 5
    /\ (Len(slides_info) = 97 /\ Len(report) >= 2) => report[2] = PASS

C3_Witness == pc = "sec3" /\ Len(slides_info) = 97 /\ report[2] = PASS

\* C4: in the generated deck the slide range of each of the five segments
\* holds a slide with each of the four markers, so check_segment_structure
\* is PASS for all five segments, in the check's result and in the report.
C4_SegmentsComplete ==
    /\ pc = "saved" =>
          LET si == extract_slide_info(file.slides)
          IN  \A k \in 1..5 :
                 /\ \A c \in 1..4 :
                       \E i \in segments[k].start..segments[k].end :
                           segment_checks[c].marker \in si[i].kw
                 /\ check_segment_structure(si)[k].status = PASS
                 /\ check_segment_structure(si)[k].missing = <<>>
    /\ (Len(slides_info) = 97 /\ Len(report) >= 7) =>
          \A k \in 1..5 : report[2 + k] = PASS

C4_Witness ==
    /\ pc = "sec4" /\ Len(slides_info) = 97
    /\ \A k \in 1..5 : report[2 + k] = PASS

\* C5: validating the generated deck with one segment-divider slide removed
\* makes check_segment_dividers report FAIL.
C5_RemovedDividerFails ==
    (/\ file.state = "ok"
     /\ pc \notin {"build", "saved", "ready"}
     /\ Cardinality({i \in DOMAIN file.slides : file.slides[i].kind = "divider"}) = 4
     /\ Len(report) >= 2)
    => report[2] = FAIL

\* C6: whatever statuses the validator has collected, when at least one of
\* them is FAIL the grade is none of "A", "A-", "B+".
C6_NoTopGradeWithFail ==
    (pc \in {"graded", "exit"} /\ \E j \in DOMAIN all_checks : all_checks[j] = FAIL)
    => grade \notin {"A", "A-", "B+"}

C6_Witness ==
    /\ pc = "graded"
    /\ all_checks[2] = FAIL
    /\ \A j \in DOMAIN all_checks : j # 2 => all_checks[j] = PASS
    /\ grade = "B"

\* The table of the grade as the claim C7 states it
GradeTable(F, W) ==
    CASE F = 0 /\ W = 0 -> "A"
      [] F = 0 /\ 1 <= W /\ W <= 2 -> "A-"
      [] F = 0 /\ W >= 3 -> "B+"
      [] F = 1 -> "B"
      [] F = 2 -> "C"
      [] F >= 3 -> "D"

\* Grades from best to worst
GradeRank(g) ==
    CASE g = "A" -> 1 [] g = "A-" -> 2 [] g = "B+" -> 3
      [] g = "B" -> 4 [] g = "C" -> 5 [] g = "D" -> 6

\* C7: the grade is the table's value for the number F of FAIL and the
\* number W of WARN among the collected statuses, whatever checks they come
\* from, and no status list with more FAILs has a better grade.
C7_GradeIsTable ==
    pc \in {"graded", "exit"} =>
        /\ fails = Cardinality({j \in DOMAIN all_checks : all_checks[j] = FAIL})
        /\ warns = Cardinality({j \in DOMAIN all_checks : all_checks[j] = WARN})
        /\ grade = GradeTable(fails, warns)
        /\ \A F \in (fails + 1)..Len(all_checks) :
              \A W \in 0..(Len(all_checks) - F) :
                  GradeRank(Grade(F, W)) >= GradeRank(grade)

C7_Witness == pc = "graded" /\ fails = 0 /\ warns = 2 /\ grade = "A-"

\* C8: check_decision_matrices counts each of its 10 keywords once when the
\* keyword is in at least one slide; the status is PASS for a count of 8 or
\* more, WARN for 6 or 7, FAIL for 5 or fewer; found and not-found add up to 10.
C8_MatrixCoverage ==
    Len(report) >= 8 =>
        LET result == check_decision_matrices(slides_info)
            hits == {j \in 1..10 :
                        \E i \in DOMAIN slides_info : key_matrices[j] \in slides_info[i].kw}
            n == Cardinality(hits)
        IN  /\ Len(result.found) = n
            /\ \A j, k \in DOMAIN result.found : j # k => result.found[j] # result.found[k]
            /\ Len(result.found) + Len(result.missing) = 10
            /\ result.status = report[8]
            /\ n >= 8 => report[8] = PASS
            /\ n \in {6, 7} => report[8] = WARN
            /\ n <= 5 => report[8] = FAIL

C8_Witness ==
    /\ Len(report) >= 8
    /\ report[8] = PASS
    /\ Len(check_decision_matrices(slides_info).found) = 8
    /\ \E i, j \in DOMAIN slides_info : i # j /\ "rto" \in slides_info[i].kw
                                              /\ "rto" \in slides_info[j].kw

\* C9: when the input file does not load the validator exits at once with
\* status 1: no check has run, nothing is reported or collected, no grade
\* is set, and nothing runs afterwards.
C9_LoadFailureFatal ==
    /\ (file.state # "ok" /\ pc \notin {"build", "saved", "ready"}) =>
          /\ pc = "exit"
          /\ exit_code = <<1>>
          /\ slides_info = <<>> /\ report = <<>> /\ all_checks = <<>>
          /\ total = 0 /\ grade = NoGrade
          /\ ~ ENABLED Validate
    /\ exit_code = <<1>> => file.state # "ok"

C9_Witness == pc = "exit" /\ file.state = "corrupt" /\ exit_code = <<1>>

\* The number of statuses collected when main is at a position
CollectedAt(p) ==
    CASE p = "agg2" -> 1 [] p = "agg3" -> 2 [] p = "agg4" -> 7 [] p = "agg5" -> 8
      [] p = "agg6" -> 9 [] p = "agg7" -> 10 [] p = "agg8" -> 11 [] p = "agg9" -> 12
      [] p \in {"count", "graded"} -> 13
      [] OTHER -> 0

\* C10: once the deck has loaded, no check result stops the run: each
\* check adds its statuses (1, 1, 5, 1, 1, 1, 1, 1, 1) whatever the earlier
\* ones were, the run never ends with a failure status, and it always goes
\* on to its end, with status 0, 13 collected statuses and
\* PASS + WARN + FAIL = 13.
C10_AllChecksRun ==
    /\ [](file.state = "ok" =>
            /\ pc \in {"agg1", "agg2", "agg3", "agg4", "agg5", "agg6", "agg7",
                       "agg8", "agg9", "count", "graded"} =>
                  /\ Len(all_checks) = CollectedAt(pc)
                  /\ Len(report) = 13
            /\ pc \in {"graded", "exit"} =>
                  /\ Len(all_checks) = 13
                  /\ total = 13
                  /\ passes + warns + fails = 13
            /\ pc = "exit" => exit_code = <<0>>)
    /\ (file.state = "ok" /\ pc = "sec1") ~> (pc = "exit" /\ exit_code = <<0>>)

C10_Witness ==
    /\ pc = "exit" /\ exit_code = <<0>>
    /\ report[1] = FAIL /\ report[2] = FAIL
    /\ Len(all_checks) = 13 /\ fails >= 3

\* The lines of the rendered document
MarkdownLines == Split(markdown, "\n")

\* C11: for the single section "Identity (25<en dash>30%)" with the items a
\* and b, the rendered document has a detail heading that holds the label of
\* "Identity" (or the fallback label) and the string "25<en dash>30%", and
\* the lines after the heading that are not empty are "- a" and "- b".
C11_SyntheticSection ==
    (/\ pc \in {"open", "write", "exit"}
     /\ markdown # <<>>
     /\ objectives.sections =
            << [title |-> <<"Identity">> \o WeightSuffix(EnDash),
                items |-> << <<"a">>, <<"b">> >>] >>)
    => \E i \in DOMAIN MarkdownLines :
          /\ MarkdownLines[i] # <<>> /\ Head(MarkdownLines[i]) = "###"
          /\ \/ Contains(MarkdownLines[i], <<"emoji_Identity">>)
             \/ Contains(MarkdownLines[i], <<default_emoji>>)
          /\ Contains(MarkdownLines[i], <<"25", EnDash, "30", "%">>)
          /\ SelectSeq(SubSeq(MarkdownLines, i + 1, Len(MarkdownLines)),
                       LAMBDA l : l # <<>>)
                = << <<"-", " ", "a">>, <<"-", " ", "b">> >>

\* The positions of the group headings of a page, in document order
HeadingPositions(elems) ==
    SelectSeq([i \in DOMAIN elems |-> i], LAMBDA i : elems[i].name = "h3")

\* The list items of the page, each one once in document order: an item,
\* then the items of the list nested in it
RECURSIVE ItemsOnce(_)
ItemsOnce(lis) ==
    IF lis = <<>> THEN <<>>
    ELSE <<Strip(Head(lis).text \o Concat(Head(lis).sub))>>
             \o [h \in DOMAIN Head(lis).sub |-> Strip(Head(lis).sub[h])]
             \o ItemsOnce(Tail(lis))

\* The items of the lists at the positions from..to of a page
RECURSIVE ListItemsBetween(_, _, _)
ListItemsBetween(elems, from, to) ==
    IF from > to THEN <<>>
    ELSE (IF elems[from].name = "ul" THEN ItemsOnce(elems[from].items) ELSE <<>>)
             \o ListItemsBetween(elems, from + 1, to)

\* The groups as C12 states them: one per heading, with the items of the
\* lists between the heading and the next one
GroupsByHeading(elems) ==
    LET hs == HeadingPositions(elems)
    IN  [k \in DOMAIN hs |->
            [title |-> Strip(elems[hs[k]].text),
             items |-> ListItemsBetween(elems, hs[k] + 1,
                                        IF k < Len(hs) THEN hs[k + 1] - 1 ELSE Len(elems))]]

\* C12: parse_objectives returns one group per heading after the matched
\* heading, in document order, the last one and those without a list
\* included, and the items of a group are the list items between its heading
\* and the next heading, in document order.
C12_GroupsFollowHeadings ==
    (pc \in {"render", "open", "write"} /\ objectives # <<>>)
    => objectives.sections = GroupsByHeading(page.elems)

\* The title ends with a weight in parentheses: "(", digits, a dash, digits, "%", ")"
HasTrailingWeight(title) ==
    /\ Len(title) >= 6
    /\ title[Len(title) - 5] = "("
    /\ IsDigits(title[Len(title) - 4])
    /\ title[Len(title) - 3] \in {EnDash, EmDash, Hyphen, MojibakeDash}
    /\ IsDigits(title[Len(title) - 2])
    /\ title[Len(title) - 1] = "%"
    /\ title[Len(title)] = ")"

\* The title as C13 states it: without its trailing weight expression only
TitleWithoutWeight(title) ==
    IF HasTrailingWeight(title) THEN Strip(SubSeq(title, 1, Len(title) - 6)) ELSE Strip(title)

\* The weight as C13 states it: the range inside the trailing parentheses
\* when it is written with an en dash or an em dash
WeightOfTitle(title) ==
    IF HasTrailingWeight(title) /\ title[Len(title) - 3] \in {EnDash, EmDash}
    THEN SubSeq(title, Len(title) - 4, Len(title) - 1)
    ELSE <<>>

\* C13: the rendered title of a group is its title without the trailing
\* weight expression (earlier parentheses are kept), the rendered weight is
\* the range of that expression when written with an en dash or an em dash,
\* and the summary line and the detail heading show the same title and weight.
C13_TitleAndWeight ==
    (pc \in {"open", "write"} /\ markdown # <<>>)
    => \A k \in DOMAIN objectives.sections :
          LET title == objectives.sections[k].title
              shown == TitleWithoutWeight(title) \o <<" ", "(">> \o WeightOfTitle(title) \o <<")">>
          IN  /\ \E i \in DOMAIN MarkdownLines : MarkdownLines[i] = <<"-", " ">> \o shown
              /\ \E i \in DOMAIN MarkdownLines :
                    /\ Len(MarkdownLines[i]) >= 7
                    /\ SubSeq(MarkdownLines[i], 1, 5) = <<"###", " ", ToString(k), ".", " ">>
                    /\ SubSeq(MarkdownLines[i], 8, Len(MarkdownLines[i])) = shown

\* The keywords in the order C14 lists them
LabelKeywords ==
    <<"Identity", "Data", "Business", "Infrastructure", "Compute", "Application",
      "Migration", "Network">>

\* Every label a heading can carry
AllLabels == {emoji_map[j].v : j \in DOMAIN emoji_map} \cup {default_emoji}

\* C14: the detail heading of group k carries exactly one label: that of the
\* first keyword, in the order Identity, Data, Business, Infrastructure,
\* Compute, Application, Migration, Network, that is in the stripped title,
\* and the fallback label when the title holds none of them.
C14_FirstKeywordLabel ==
    (pc \in {"open", "write"} /\ markdown # <<>>)
    => \A k \in DOMAIN objectives.sections :
          LET title == section_title(objectives.sections[k].title)
              inTitle == {j \in DOMAIN LabelKeywords : KeywordIn(LabelKeywords[j], title)}
          IN  \E i \in DOMAIN MarkdownLines :
                 LET line == MarkdownLines[i]
                 IN  /\ Len(line) >= 7
                     /\ SubSeq(line, 1, 5) = <<"###", " ", ToString(k), ".", " ">>
                     /\ Cardinality({h \in DOMAIN line : line[h] \in AllLabels}) = 1
                     /\ inTitle = {} => line[6] = default_emoji
                     /\ \A j \in inTitle :
                           (\A h \in inTitle : j <= h) =>
                               /\ emoji_map[j].k = LabelKeywords[j]
                               /\ line[6] = emoji_map[j].v

C14_Witness ==
    /\ pc = "write"
    /\ Len(objectives.sections) = 1
    /\ objectives.sections[1].title = <<"Networking", " ", "and", " ", "Data">>
    /\ Contains(markdown, <<"###", " ", "1", ".", " ", "emoji_Data", " ", "Networking">>)

\* C15: without EXAM_URL (absent or empty) the script raises before any
\* HTTP request; on a page without the heading it raises after the one
\* request; an HTTP error status or a failed connection raises too; in all
\* these cases the exit status is 1 and the output file is neither opened
\* nor written; the file is touched only after a successful fetch of a page
\* with the heading.
C15_FatalNoPartialOutput ==
    /\ (EXAM_URL \in {"absent", "empty"} /\ pc # "sync") =>
          /\ pc = "exit" /\ exit_code = <<1>>
          /\ http_requests = 0
          /\ out_file.state = "untouched"
    /\ (EXAM_URL = "set" /\ page.status \in {"http_error", "unreachable"}
          /\ pc \notin {"sync", "fetch"}) =>
          /\ pc = "exit" /\ exit_code = <<1>>
          /\ http_requests = 1
          /\ out_file.state = "untouched"
    /\ (EXAM_URL = "set" /\ page.status = "ok" /\ ~ page.skills
          /\ pc \notin {"sync", "fetch", "find"}) =>
          /\ pc = "exit" /\ exit_code = <<1>>
          /\ http_requests = 1
          /\ out_file.state = "untouched"
    /\ (pc \in {"sync", "fetch", "find", "render", "open"} \/ exit_code = <<1>>) =>
          out_file = [state |-> "untouched", content |-> <<>>]
    /\ out_file.state # "untouched" =>
          EXAM_URL = "set" /\ page.status = "ok" /\ page.skills /\ http_requests = 1

C15_Witness ==
    /\ pc = "exit" /\ exit_code = <<1>>
    /\ EXAM_URL = "set" /\ page.status = "ok" /\ ~ page.skills
    /\ http_requests = 1
    /\ out_file.state = "untouched"

\* The places of events with the operation op
EventsOf(op) == {j \in DOMAIN events : events[j].op = op}

\* The downloads that have succeeded: the requests of an item or an image
\* that no error message follows
Succeeded ==
    {j \in EventsOf("get") :
        /\ events[j].at[1] \in {"item", "image"}
        /\ ~ (j < Len(events) /\ events[j + 1] = Event("error", events[j].at))}

\* C16: a download whose URL answers 404 logs an error and returns False to
\* its caller in both fetchers, the script does not end with a failure, no
\* file is written for the item, and the item is not counted: in
\* download_diagrams.py the count of the page in process plus the total
\* of the pages done, and at the end the reported total, is the number of
\* downloads that succeeded.
C16_NotFoundNotCounted ==
    /\ \A dir \in {images_dir, {}} :
          /\ download_image("not_found", ARCHITECTURE_IMAGES[1], dir) =
                 [ret |-> FALSE, dir |-> dir]
          /\ scrape_download_image(ImgTag("diagram", "not_found", {}, ".png"),
                                   <<"guide">>, dir) = [ret |-> FALSE, dir |-> dir]
    /\ exit_code # <<1>>
    /\ Cardinality(images_dir) = Cardinality(Succeeded)
    /\ \A j \in EventsOf("error") :
          /\ events[j].at[1] = "item" =>
                /\ ARCHITECTURE_IMAGES[events[j].at[2]] \notin images_dir
                /\ item_idx > events[j].at[2]
          /\ events[j].at[1] = "image" =>
                item_idx > events[j].at[2] \/ img > events[j].at[3]
    /\ pc = "images" => total_images + image_count = Cardinality(Succeeded)
    /\ (pc \in {"scrape", "exit"} /\ EventsOf("get") # {} /\ events[1].at[1] = "page") =>
          total_images = Cardinality(Succeeded)

\* The requests of events whose target is of the kind given, in order
Requests(kind) ==
    SelectSeq(events, LAMBDA e : e.op = "get" /\ e.at[1] = kind)

\* The page fetched last, 0 when the last fetch failed or none was made
LastFetched ==
    LET fetches == {j \in EventsOf("get") : events[j].at[1] = "page"}
    IN  IF fetches = {} THEN 0
        ELSE LET last == CHOOSE j \in fetches : \A h \in fetches : h <= j
             IN  IF last < Len(events) /\ events[last + 1] = Event("error", events[last].at)
                 THEN 0 ELSE events[last].at[2]

\* C17: a fetcher attempts every item once and in list order, whatever the
\* earlier items did, and never ends with a failure: the downloads requested
\* are those of the pairs 1, 2, ... up to the loop position, all 18 at the
\* end; the pages requested are 1, 2, ... up to the loop position, all 13 at
\* the end; and once a fetched page is done, the images requested from it are
\* its qualifying images, each once and in page order.
C17_EveryItemOnce ==
    /\ exit_code # <<1>>
    /\ pc \in {"items", "exit"} /\ Requests("page") = <<>> =>
          /\ Requests("item") = [j \in 1..(item_idx - 1) |-> Event("get", <<"item", j>>)]
          /\ pc = "exit" => item_idx = Len(ARCHITECTURE_IMAGES) + 1
    /\ pc \in {"scrape", "images", "exit"} /\ Requests("item") = <<>> =>
          /\ Requests("page") =
                 [j \in 1..(IF pc = "images" THEN item_idx ELSE item_idx - 1) |->
                     Event("get", <<"page", j>>)]
          /\ pc = "exit" /\ events # <<>> => item_idx = Len(pages) + 1
          /\ (pc = "scrape" /\ LastFetched # 0) =>
                SelectSeq(Requests("image"), LAMBDA e : e.at[2] = LastFetched)
                  = LET wanted == SelectSeq([j \in DOMAIN imgs |-> j],
                                            LAMBDA j : imgs[j].src = "diagram")
                    IN  [h \in DOMAIN wanted |->
                            Event("get", <<"image", LastFetched, wanted[h]>>)]

\* The places of events where download_diagrams.py requests an image
ImageRequests == {j \in EventsOf("get") : events[j].at[1] = "image"}

\* C18: between two consecutive image requests of download_diagrams.py
\* the fetcher waits the one-second delay: no image request comes after the
\* previous one without a "sleep" between them.
C18_DelayBetweenImageRequests ==
    \A j, k \in ImageRequests :
        (j < k /\ \A h \in ImageRequests : ~ (j < h /\ h < k))
        => \E h \in EventsOf("sleep") : j < h /\ h < k

\* C19: the deck builder writes its output file only in its last step, after
\* all 97 slide blocks have run, and once: the step that writes ends the
\* script.  When a slide-construction call raises before that (add_table with
\* an empty row list), nothing catches it, the script ends with status 1,
\* and no output file exists.
C19_SingleWriteAtEnd ==
    /\ [][/\ file' # file =>
               /\ pc = "build" /\ step = NumBlocks + 1 /\ Len(prs) = NumBlocks
               /\ file' = [state |-> "ok", slides |-> prs]
               /\ pc' = "saved"
          /\ pc \in {"saved", "exit"} => UNCHANGED <<pc, file, builderVars>>]_vars
    /\ [](pc = "exit" => exit_code = <<1>> /\ file.state = "none")
    /\ [](pc = "build" => file.state = "none")

\* add_table raised in a block after the first slides were added: the script
\* has ended with status 1 and there is no output file
C19_Witness ==
    /\ pc = "exit"
    /\ exit_code = <<1>>
    /\ Len(prs) > 1
    /\ Plan[step].cols > 0
    /\ file.state = "none"

\* The last part of the name of the file download_diagrams.py saved
SavedExt == LET f == CHOOSE f \in images_dir : TRUE IN f[Len(f)]

\* C20: the extension of a file download_diagrams.py saves is one of .svg,
\* .png, .jpg, chosen in this order: .svg when the content-type holds "svg"
\* or the URL ends in .svg; else .png when the content-type holds "png" or the
\* URL ends in .png; else .jpg when the content-type holds "jpg" or "jpeg" or
\* the URL ends in .jpg or .jpeg; else .png.
C20_ExtensionPriority ==
    images_dir # {} =>
        LET tag == imgs[1]
            svg == "svg" \in tag.ctype \/ tag.suffix = ".svg"
            png == "png" \in tag.ctype \/ tag.suffix = ".png"
            jpg == "jpg" \in tag.ctype \/ "jpeg" \in tag.ctype
                   \/ tag.suffix \in {".jpg", ".jpeg"}
        IN  /\ Cardinality(images_dir) = 1
            /\ SavedExt \in {".svg", ".png", ".jpg"}
            /\ svg => SavedExt = ".svg"
            /\ ~ svg /\ png => SavedExt = ".png"
            /\ ~ svg /\ ~ png /\ jpg => SavedExt = ".jpg"
            /\ ~ svg /\ ~ png /\ ~ jpg => SavedExt = ".png"

\* An image answered with a png content-type under a URL ending in .svg has
\* been saved as guide.svg
C20_Witness ==
    /\ img = 2
    /\ imgs[1].ctype = {"png"}
    /\ imgs[1].suffix = ".svg"
    /\ images_dir = {<<"guide", ".svg">>}

\* The lines of the Markdown output that are not empty
OutputLines == SelectSeq(MarkdownLines, LAMBDA line : line # <<>>)

\* The number of lines of the detail blocks before block k
RECURSIVE LinesBefore(_, _)
LinesBefore(sections, k) ==
    IF k <= 1 THEN 0
    ELSE LinesBefore(sections, k - 1) + 1 + Len(sections[k - 1].items)

\* seq starts with prefix
StartsWith(seq, prefix) ==
    Len(seq) >= Len(prefix) /\ SubSeq(seq, 1, Len(prefix)) = prefix

\* C21: for n sections the Markdown output holds, in this order, the title,
\* the last-updated line, a summary list of n lines, one per section in input
\* order, and n detail blocks whose headings are numbered 1..n in input
\* order; block k lists the items of section k, each as "- item", in their
\* order, and nothing else.
C21_OutputShape ==
    (pc \in {"open", "write", "exit"} /\ exit_code # <<1>>) =>
        LET sections == objectives.sections
            n == Len(sections)
            out == OutputLines
            first(k) == 5 + n + LinesBefore(sections, k)
        IN  /\ Len(out) = 4 + n + LinesBefore(sections, n + 1)
            /\ StartsWith(out[1], <<"#", " ">>)
            /\ Contains(out[1], <<"AZ-305: Azure Solutions Architect Expert">>)
            /\ StartsWith(out[2], <<">", " ">>)
            /\ Contains(out[2], objectives.last_updated)
            /\ StartsWith(out[3], <<"##", " ">>)
            /\ \A k \in 1..n :
                  StartsWith(out[3 + k],
                             <<"-", " ">> \o SplitHead(sections[k].title, " "))
            /\ StartsWith(out[4 + n], <<"##", " ">>)
            /\ \A k \in 1..n :
                  /\ StartsWith(out[first(k)], <<"###", " ", ToString(k), ".", " ">>)
                  /\ Contains(out[first(k)], SplitHead(sections[k].title, " "))
                  /\ \A j \in DOMAIN sections[k].items :
                        out[first(k) + j] = <<"-", " ">> \o sections[k].items[j]

\* Three sections with different items have been rendered and written
C21_Witness ==
    /\ pc = "exit"
    /\ out_file.state = "written"
    /\ Len(objectives.sections) = 3
    /\ objectives.sections[1].items = << <<"a">>, <<"b">> >>
    /\ objectives.sections[2].items = <<>>
    /\ objectives.sections[3].items = << <<"b">>, <<"a">> >>
    /\ out_file.content = markdown

\* The places in the 13 collected statuses of the checks that never warn
\* (slide count, dividers, the five segments) and of those that never fail
\* (opening, closing, exam weights, tables)
PassOrFailPlaces == 1..7
PassOrWarnPlaces == {9, 10, 12, 13}

\* C22: every status of a validator check is PASS, WARN or FAIL;
\* check_slide_count, check_segment_dividers and the results of
\* check_segment_structure are PASS or FAIL only; both results of
\* check_opening_closing, check_exam_weights and check_tables_present are PASS
\* or WARN only; so at most 9 of the 13 statuses are FAIL and at most 6 WARN.
C22_StatusRanges ==
    LET st == AllStatuses(slides_info)
    IN  /\ Len(st) = 13
        /\ all_checks = st
        /\ \A j \in DOMAIN st : st[j] \in {PASS, WARN, FAIL}
        /\ \A j \in PassOrFailPlaces : st[j] \in {PASS, FAIL}
        /\ \A j \in PassOrWarnPlaces : st[j] \in {PASS, WARN}
        /\ check_slide_count(slides_info).status = st[1]
        /\ check_segment_dividers(slides_info).status = st[2]
        /\ \A k \in 1..5 : check_segment_structure(slides_info)[k].status = st[2 + k]
        /\ check_opening_closing(slides_info)[1].status = st[9]
        /\ check_opening_closing(slides_info)[2].status = st[10]
        /\ check_exam_weights(slides_info).status = st[12]
        /\ check_tables_present(slides_info).status = st[13]
        /\ Count(st, FAIL) <= 9
        /\ Count(st, WARN) <= 6

\* A deck on which every check that can fail fails and the other four warn
C22_Witness == pc = "graded" /\ fails = 9 /\ warns = 4 /\ passes = 0

\* The numbers of the slides whose text holds the topic, in lower case, and
\* the weight of expected divider k
SlidesWithDivider(k) ==
    {slides_info[i].num : i \in {i \in DOMAIN slides_info :
        /\ Lower(expected_dividers[k].topic) \in slides_info[i].kw
        /\ expected_dividers[k].weight \in slides_info[i].kw}}

\* C23: check_segment_dividers finds an expected divider when some slide, of
\* any layout kind, holds its topic and its weight string; for each of the
\* five it reports at most one slide, the lowest-numbered one that matches;
\* found plus missing is 5, and the status is PASS exactly when all five are found.
C23_DividerSearch ==
    pc \notin {"ready", "exit"} =>
        LET r == check_segment_dividers(slides_info)
            reported(k) == {j \in DOMAIN r.found : r.found[j].topic = expected_dividers[k].topic}
        IN  /\ \A k \in DOMAIN expected_dividers :
                  /\ Cardinality(reported(k)) <= 1
                  /\ reported(k) # {} <=> SlidesWithDivider(k) # {}
                  /\ \A j \in reported(k) :
                        /\ r.found[j].num \in SlidesWithDivider(k)
                        /\ \A m \in SlidesWithDivider(k) : r.found[j].num <= m
                  /\ reported(k) = {} <=>
                        \E j \in DOMAIN r.issues : r.issues[j] = expected_dividers[k].topic
            /\ Len(r.found) + Len(r.issues) = 5
            /\ r.status = PASS <=> Len(r.found) = 5
            /\ r.status \in {PASS, FAIL}
            /\ Len(report) >= 2 => report[2] = r.status

\* On the built deck the divider of the first segment is found on slide 3, a
\* content slide; slide 5 and the divider slide 9 match too
C23_Witness ==
    /\ pc = "sec3"
    /\ Len(slides_info) = 97
    /\ file.slides[3].kind = "content"
    /\ check_segment_dividers(slides_info).found[1] = [topic |-> "Identity, Governance", num |-> 3]
    /\ SlidesWithDivider(1) = {3, 5, 9}

\* The fixed slide-number range of each segment
SegmentRange(k) ==
    CASE k = 1 -> 9..27
      [] k = 2 -> 28..45
      [] k = 3 -> 46..60
      [] k = 4 -> 61..76
      [] k = 5 -> 77..92

\* The four markers of a segment
Markers == {"learning objective", "demo", "exam tip", "review question"}

\* The markers found on the slides of the corpus whose number is in range k
MarkersInRange(k) ==
    {m \in Markers : \E i \in DOMAIN slides_info :
        slides_info[i].num \in SegmentRange(k) /\ m \in slides_info[i].kw}

\* C24: check_segment_structure returns five results, one per segment in the
\* order 1..5; segment k is PASS exactly when each of the four markers is on
\* some slide whose number is in the range of k, so a marker outside the range
\* does not count; with no slide in the range the result is FAIL with all
\* four markers missing.
C24_SegmentStructure ==
    pc \notin {"ready", "exit"} =>
        LET res == check_segment_structure(slides_info)
        IN  /\ Len(res) = 5
            /\ \A k \in 1..5 :
                  /\ res[k].seg_id = k
                  /\ res[k].status \in {PASS, FAIL}
                  /\ res[k].status = PASS <=> MarkersInRange(k) = Markers
                  /\ Len(res[k].missing) = Cardinality(Markers \ MarkersInRange(k))
                  /\ (~ \E i \in DOMAIN slides_info : slides_info[i].num \in SegmentRange(k))
                        => /\ res[k].status = FAIL
                           /\ res[k].missing = <<"learning_objectives", "demo_callout",
                                                 "exam_tips", "review_questions">>
            /\ Len(report) >= 7 => \A k \in 1..5 : report[2 + k] = res[k].status

\* A truncated deck: one segment has slides in its range but lacks a marker
\* that a slide outside the range holds, and another has no slide in its range
C24_Witness ==
    /\ pc = "sec4"
    /\ \E k \in 1..5 : \E m \in Markers \ MarkersInRange(k) :
          /\ \E i \in DOMAIN slides_info : slides_info[i].num \in SegmentRange(k)
          /\ \E i \in DOMAIN slides_info :
                slides_info[i].num \notin SegmentRange(k) /\ m \in slides_info[i].kw
          /\ report[2 + k] = FAIL
    /\ \E k \in 1..5 :
          /\ ~ \E i \in DOMAIN slides_info : slides_info[i].num \in SegmentRange(k)
          /\ report[2 + k] = FAIL

\* C25: check_tables_present counts a slide, once, exactly when one of its
\* text lines holds " | ", and returns PASS when the count is at least 15 and
\* WARN otherwise; every slide with a table of two or more columns is
\* counted, and no slide without a table is counted.
C25_TablesCounted ==
    (pc \notin {"build", "saved", "ready", "exit"} /\ Len(slides_info) = Len(file.slides)) =>
        LET r == check_tables_present(slides_info)
            counted == {i \in DOMAIN slides_info : slides_info[i].pipe}
        IN  /\ r.table_count = Cardinality(counted)
            /\ r.status = (IF r.table_count >= 15 THEN PASS ELSE WARN)
            /\ \A i \in DOMAIN slides_info :
                  /\ file.slides[i].cols >= 2 => i \in counted
                  /\ file.slides[i].cols = 0 => i \notin counted

\* C26: whenever the deck file loads, the validator runs to its end and exits
\* with status 0 whatever the statuses and the grade are; the exit status is
\* not 0 only when the file did not load.
C26_ExitZeroWhenLoaded ==
    /\ [](pc = "exit" => (exit_code = <<0>> <=> file.state = "ok"))
    /\ [](pc = "exit" => (exit_code = <<1>> <=> file.state # "ok"))
    /\ (file.state = "ok")
          ~> (pc = "exit" /\ exit_code = <<0>> /\ Len(all_checks) = 13 /\ grade # NoGrade)

\* A deck that loads and gets grade D with several FAILs: the validator has
\* ended with status 0
C26_Witness ==
    /\ pc = "exit"
    /\ file.state = "ok"
    /\ grade = "D"
    /\ fails >= 3
    /\ exit_code = <<0>>

\* The base name of the c-th successful download of page p, counted from 0:
\* the page name, then the page name with _1, _2, ...
BaseName(p, c) ==
    IF c = 0 THEN clean_filename(pages[p])
    ELSE clean_filename(pages[p]) \o <<"_", ToString(c)>>

\* The base names in the images directory: the file names without extension
SavedBaseNames == {SubSeq(f, 1, Len(f) - 1) : f \in images_dir}

\* C27: within one page of download_diagrams.py the image counter goes up
\* only by one and only with a download that succeeded (a new file), and
\* never goes down; the base names of the successful downloads of a page are
\* the page name, then the page name with _1, _2, ..., pairwise distinct, so
\* no successful download overwrites the file of an earlier one of the page;
\* a failed attempt takes no name.
C27_CounterAndNames ==
    /\ [][(pc = "images" /\ image_count' # image_count) =>
              /\ image_count' = image_count + 1
              /\ images_dir' # images_dir
              /\ images_dir \subseteq images_dir'
              /\ SavedBaseNames' = SavedBaseNames \cup {BaseName(item_idx, image_count)}
              /\ BaseName(item_idx, image_count) \notin SavedBaseNames]_vars
    /\ [][(pc = "images" /\ images_dir' # images_dir) => image_count' = image_count + 1]_vars
    /\ [](pc = "images" =>
             \A c \in 0..MaxTags :
                 BaseName(item_idx, c) \in SavedBaseNames <=> c < image_count)

\* Two images of the first page have been saved, under guide and guide_1
C27_Witness ==
    /\ pc = "images"
    /\ image_count = 2
    /\ images_dir = {<<"guide", ".png">>, <<"guide", "_", "1", ".png">>}

\* The places of the corpus check_opening_closing looks at: the first 8
\* slides and the last 5
OpeningWindow == {i \in DOMAIN slides_info : i <= 8}
ClosingWindow == {i \in DOMAIN slides_info : i > Len(slides_info) - 5}

\* The keywords of kws that a slide at one of the places holds
KeywordsAt(kws, places) ==
    {j \in DOMAIN kws : \E i \in places : kws[j] \in slides_info[i].kw}

\* C28: check_opening_closing looks for the 8 opening keywords on the first
\* 8 slides only and for the 5 closing keywords on the last 5 slides only,
\* counts a keyword once, and returns PASS for the opening from 7 keywords on
\* and for the closing from 4 on, WARN otherwise; a keyword found only
\* outside its window is not counted.  The windows share a slide when the
\* deck has fewer than 13 slides (and at least one).
C28_OpeningClosingWindows ==
    pc \notin {"ready", "exit"} =>
        LET r == check_opening_closing(slides_info)
            opening == Cardinality(KeywordsAt(opening_keywords, OpeningWindow))
            closing == Cardinality(KeywordsAt(closing_keywords, ClosingWindow))
        IN  /\ Len(opening_keywords) = 8 /\ Len(closing_keywords) = 5
            /\ Cardinality(OpeningWindow) <= 8 /\ Cardinality(ClosingWindow) <= 5
            /\ r[1].found = opening
            /\ r[2].found = closing
            /\ r[1].status = (IF opening >= 7 THEN PASS ELSE WARN)
            /\ r[2].status = (IF closing >= 4 THEN PASS ELSE WARN)
            /\ Len(slides_info) \in 1..12 <=> OpeningWindow \cap ClosingWindow # {}
            /\ Len(report) >= 10 => report[9] = r[1].status /\ report[10] = r[2].status

\* A deck of fewer than 13 slides, so the windows overlap, with an opening
\* keyword that only a slide after the eighth holds: it is not counted
C28_Witness ==
    /\ pc = "sec6"
    /\ Len(slides_info) < 13
    /\ OpeningWindow \cap ClosingWindow # {}
    /\ \E j \in DOMAIN opening_keywords :
          /\ j \notin KeywordsAt(opening_keywords, OpeningWindow)
          /\ j \in KeywordsAt(opening_keywords, DOMAIN slides_info)
    /\ check_opening_closing(slides_info)[1].found
          < Cardinality(KeywordsAt(opening_keywords, DOMAIN slides_info))

\* seq is the start of other
IsPrefix(seq, other) ==
    Len(seq) <= Len(other) /\ SubSeq(other, 1, Len(seq)) = seq

GroupItems == Concat([k \in DOMAIN objectives.sections |-> objectives.sections[k].items])

\* The list items of the page after its first group heading, each one once
ItemsAfterFirstHeading(elems) ==
    LET hs == HeadingPositions(elems)
    IN  IF hs = <<>> THEN <<>> ELSE ListItemsBetween(elems, hs[1] + 1, Len(elems))

\* C30: parse_objectives conserves the list items: each list item after the
\* first group heading is in one group, once, also when lists are nested in
\* list items, and the items of lists before that heading are in no group.
C30_ItemsConserved ==
    (pc \in {"render", "open", "write"} /\ objectives # <<>>)
    => /\ GroupItems = ItemsAfterFirstHeading(page.elems)
       /\ Len(GroupItems) = Len(ItemsAfterFirstHeading(page.elems))

====
